---- MODULE Spec2Model ----
(***************************************************************************)
(* Model of the sandbox automation pipeline of                             *)
(* backend/services/sandboxAIService.js (class SandboxAIService).          *)
(*                                                                         *)
(* The store (message_log, sandbox_ai_processing, sandbox_tasks) is shared *)
(* by every run of runFullAutomation; a run is a sequence of awaited       *)
(* steps, and the steps of different runs interleave.  One action models   *)
(* one iteration of a stage's loop (all the statements between two points  *)
(* where the loop can be left), with one variant per way the iteration can *)
(* end: normally, or by a store write that throws.                         *)
(***************************************************************************)
EXTENDS Integers, Sequences, FiniteSets, TLC

VARIABLES
    openai,                 \* this.openai is non-null (an API key is configured)
    now,                    \* the wall clock, in hours (NOW(), Date.now())
    nextId,                 \* source of fresh uuids (Date.now() + Math.random())
    message_log,            \* table message_log of the session: a set of rows
    sandbox_ai_processing,  \* table sandbox_ai_processing: rows in insertion order
    sandbox_tasks,          \* table sandbox_tasks: rows in insertion order
    run,                    \* the local variables of each call of runFullAutomation
    started,                \* number of calls of runFullAutomation so far
    outcomes,               \* what each finished call returned or threw, in order
    aiCalls,                \* completions.create calls of the Summarizer, per message
    faults,                 \* store writes that will still throw (a failing store)
    emitted,                \* what each return of processSummarizeMessages held, in order
    arg,                    \* argument of the function under study (function specs)
    ret                     \* its result

vars == << openai, now, nextId, message_log, sandbox_ai_processing,
           sandbox_tasks, run, started, outcomes, aiCalls, faults, emitted,
           arg, ret >>

storeVars == << message_log, sandbox_ai_processing, sandbox_tasks >>

-----------------------------------------------------------------------------
(* Bounds of the model *)

MaxMsgs == 1        \* inbound messages that arrive in the session
MaxRuns == 2        \* calls of runFullAutomation
MaxClock == 1       \* hours the clock advances
MaxFaults == 1      \* store writes that throw
MaxOrder == 3       \* messages of the session at the start of a call, in the order specification
MaxTasks == 2       \* rows of sandbox_tasks, in the follow-up specification
MaxAge == 3         \* hours the clock advances, in the follow-up specification
MaxEvals == 2       \* calls of evaluateTaskStatus, in the follow-up specification
MaxSummaries == 3   \* summaries handed to processHostEscalations, in the escalation specification
MaxLog == 19        \* rows of message_log, in the history specification
MaxPrior == 4        \* rows of message_log, in the scenario specification
MaxFallback == 2     \* inbound messages of the session, in the fallback specification
MaxUrgent == 2       \* summaries the Summarizer returned, in the urgency specification

Runs == {"r1", "r2"}               \* the calls that can be in progress at once

-----------------------------------------------------------------------------
(* Strings: String.prototype.toLowerCase and String.prototype.includes *)

UpperCase == <<"A","B","C","D","E","F","G","H","I","J","K","L","M",
               "N","O","P","Q","R","S","T","U","V","W","X","Y","Z">>
LowerCase == <<"a","b","c","d","e","f","g","h","i","j","k","l","m",
               "n","o","p","q","r","s","t","u","v","w","x","y","z">>

charAt(s, i) == SubSeq(s, i, i)

lowerChar(c) ==
    IF \E k \in DOMAIN UpperCase : UpperCase[k] = c
    THEN LowerCase[CHOOSE k \in DOMAIN UpperCase : UpperCase[k] = c]
    ELSE c

RECURSIVE toLowerCase(_)
toLowerCase(s) ==
    IF Len(s) = 0 THEN ""
    ELSE lowerChar(charAt(s, 1)) \o toLowerCase(SubSeq(s, 2, Len(s)))

\* the keyword is looked for at the start of the text only
includes_prefix(s, sub) == SubSeq(s, 1, Len(sub)) = sub

includes(s, sub) ==
    \E i \in 1..(Len(s) - Len(sub) + 1) : SubSeq(s, i, i + Len(sub) - 1) = sub

-----------------------------------------------------------------------------
(* getMockSummary: the keyword classifier used when no completion is       *)
(* available                                                               *)

SummaryOf(sentiment, actionRequired, actionTitle, category, priority) ==
    [ language |-> "en",
      sentiment |-> sentiment,
      tone |-> IF sentiment = "negative" THEN "frustrated" ELSE "friendly",
      actionRequired |-> actionRequired,
      actionTitle |-> actionTitle,
      category |-> category,
      priority |-> priority,
      keyInformation |-> << actionTitle >>,
      suggestedResponse |->
          IF actionRequired
          THEN "Thank you for letting me know. I'll take care of this right away."
          ELSE "Thank you for your message. Is there anything I can help you with?" ]

\* the wifi/broken/fix rule tested before the key/check in/access rule
getMockSummary_maintenanceFirst(messageText) ==
    LET message == toLowerCase(messageText) IN
    IF includes(message, "wifi") \/ includes(message, "broken") \/ includes(message, "fix")
    THEN SummaryOf("neutral", TRUE, "Maintenance request", "maintenance", "medium")
    ELSE IF includes(message, "key") \/ includes(message, "check in") \/ includes(message, "access")
    THEN SummaryOf("neutral", TRUE, "Help with property access", "check-in", "high")
    ELSE IF includes(message, "noise") \/ includes(message, "complaint") \/ includes(message, "problem")
    THEN SummaryOf("negative", TRUE, "Address guest complaint", "complaint", "high")
    ELSE IF includes(message, "clean")
    THEN SummaryOf("neutral", TRUE, "Cleaning request", "cleaning", "medium")
    ELSE SummaryOf("neutral", FALSE, "Message received", "general", "medium")

\* the five defaults of the classifier left empty: a body that matches no rule
\* gets no title, category or priority
getMockSummary_noDefaults(messageText) ==
    LET message == toLowerCase(messageText) IN
    IF includes(message, "key") \/ includes(message, "check in") \/ includes(message, "access")
    THEN SummaryOf("neutral", TRUE, "Help with property access", "check-in", "high")
    ELSE IF includes(message, "wifi") \/ includes(message, "broken") \/ includes(message, "fix")
    THEN SummaryOf("neutral", TRUE, "Maintenance request", "maintenance", "medium")
    ELSE IF includes(message, "noise") \/ includes(message, "complaint") \/ includes(message, "problem")
    THEN SummaryOf("negative", TRUE, "Address guest complaint", "complaint", "high")
    ELSE IF includes(message, "clean")
    THEN SummaryOf("neutral", TRUE, "Cleaning request", "cleaning", "medium")
    ELSE SummaryOf("", FALSE, "", "", "")

getMockSummary(messageText) ==
    LET message == toLowerCase(messageText) IN
    IF includes(message, "key") \/ includes(message, "check in") \/ includes(message, "access")
    THEN SummaryOf("neutral", TRUE, "Help with property access", "check-in", "high")
    ELSE IF includes(message, "wifi") \/ includes(message, "broken") \/ includes(message, "fix")
    THEN SummaryOf("neutral", TRUE, "Maintenance request", "maintenance", "medium")
    ELSE IF includes(message, "noise") \/ includes(message, "complaint") \/ includes(message, "problem")
    THEN SummaryOf("negative", TRUE, "Address guest complaint", "complaint", "high")
    ELSE IF includes(message, "clean")
    THEN SummaryOf("neutral", TRUE, "Cleaning request", "cleaning", "medium")
    ELSE SummaryOf("neutral", FALSE, "Message received", "general", "medium")

-----------------------------------------------------------------------------
(* getMockResponse: the reply used when no completion is available *)

ThankYou == "Thank you for your message! "

\* requiresFollowUp set for the priorities high and urgent
getMockResponse_urgentFollowUp(summary) ==
    LET c == summary.category
        message ==
            CASE c = "check-in" ->
                   ThankYou \o "The door code is 1234. You can find detailed check-in instructions in your booking confirmation."
              [] c = "maintenance" ->
                   ThankYou \o "I'm sorry to hear about this issue. I'll send someone to take a look at it right away."
              [] c = "cleaning" ->
                   ThankYou \o "I'll arrange for housekeeping to address this immediately."
              [] c = "complaint" ->
                   ThankYou \o "I sincerely apologize for this inconvenience. I'm taking immediate action to resolve this issue."
              [] OTHER ->
                   ThankYou \o "Is there anything specific I can help you with during your stay?"
    IN [ message |-> message,
         requiresFollowUp |-> (summary.priority \in { "high", "urgent" }),
         escalationNeeded |-> (c = "complaint"),
         taskType |-> CASE c = "maintenance" -> "maintenance"
                        [] c = "cleaning" -> "cleaning"
                        [] OTHER -> "none" ]

getMockResponse(summary) ==
    LET c == summary.category
        message ==
            CASE c = "check-in" ->
                   ThankYou \o "The door code is 1234. You can find detailed check-in instructions in your booking confirmation."
              [] c = "maintenance" ->
                   ThankYou \o "I'm sorry to hear about this issue. I'll send someone to take a look at it right away."
              [] c = "cleaning" ->
                   ThankYou \o "I'll arrange for housekeeping to address this immediately."
              [] c = "complaint" ->
                   ThankYou \o "I sincerely apologize for this inconvenience. I'm taking immediate action to resolve this issue."
              [] OTHER ->
                   ThankYou \o "Is there anything specific I can help you with during your stay?"
    IN [ message |-> message,
         requiresFollowUp |-> (summary.priority = "high"),
         escalationNeeded |-> (c = "complaint"),
         taskType |-> CASE c = "maintenance" -> "maintenance"
                        [] c = "cleaning" -> "cleaning"
                        [] OTHER -> "none" ]

-----------------------------------------------------------------------------
(* generateMessageSummary and generateAiResponse: the completion call       *)
(* throws, or returns text that JSON.parse rejects, or returns text that    *)
(* parses; what parses is returned as it is, the catch block returns the    *)
(* mock                                                                      *)

AISummaries ==
    { SummaryOf("neutral", TRUE, "Call the guest", "general", "urgent"),
      SummaryOf("urgent", FALSE, "Gas smell reported", "maintenance", "urgent"),
      SummaryOf("urgent", TRUE, "Send housekeeping", "cleaning", "low") }

AIResponses ==
    { [ message |-> "We are on it and will get back to you shortly.",
        requiresFollowUp |-> TRUE,
        escalationNeeded |-> FALSE,
        taskType |-> "none" ] }

\* objects that parse as JSON and lack a field of the requested schema
MalformedSummaries ==
    { [ language |-> "en",
        sentiment |-> "neutral",
        tone |-> "friendly",
        actionRequired |-> TRUE,
        actionTitle |-> "Boiler is leaking",
        category |-> "maintenance",
        priority |-> "urgent",
        suggestedResponse |-> "We will send a plumber." ] }

SummaryCompletions ==
    { [ kind |-> "throws" ], [ kind |-> "not JSON" ] }
        \cup { [ kind |-> "JSON", value |-> s ] : s \in AISummaries \cup MalformedSummaries }

ResponseCompletions ==
    { [ kind |-> "throws" ], [ kind |-> "not JSON" ] }
        \cup { [ kind |-> "JSON", value |-> a ] : a \in AIResponses }

\* the catch block left out: the failure of the call is the result
generateMessageSummaryFrom_noCatch(message, completion) ==
    IF ~openai THEN getMockSummary(message.message_body)
    ELSE IF completion.kind = "JSON" THEN completion.value
    ELSE [ thrown |-> completion.kind ]

\* generateMessageSummary for one outcome of the completion call
generateMessageSummaryFrom(message, completion) ==
    IF ~openai THEN getMockSummary(message.message_body)
    ELSE IF completion.kind = "JSON" THEN completion.value
    ELSE getMockSummary(message.message_body)

\* generateAiResponse for one outcome of the completion call
generateAiResponseFrom(summary, completion) ==
    IF ~openai THEN getMockResponse(summary.summary)
    ELSE IF completion.kind = "JSON" THEN completion.value
    ELSE getMockResponse(summary.summary)

generateMessageSummary(message) ==
    { generateMessageSummaryFrom(message, completion) : completion \in SummaryCompletions }

generateAiResponse(summary) ==
    { generateAiResponseFrom(summary, completion) : completion \in ResponseCompletions }

-----------------------------------------------------------------------------
(* The store *)

Uuid(kind, n) == [ kind |-> kind, n |-> n ]

GuestPhone == "+15550100"

WifiMessage == "The wifi is broken and I can't get in, please fix"

InboundBodies == { WifiMessage, "Hello, what a lovely place" }

\* the session runFullAutomation is called for
SessionId == "session-1"

InboundRow(n, body) ==
    [ message_uuid |-> Uuid("MSG", n),
      sandbox_session_id |-> SessionId,
      timestamp |-> now,
      from_number |-> GuestPhone,
      to_number |-> "Host",
      message_body |-> body,
      message_type |-> "Inbound",
      requestor_role |-> "guest",
      sandbox_metadata |-> {} ]

Inbound == { m \in message_log : m.message_type = "Inbound" }
Outbound == { m \in message_log : m.message_type = "Outbound" }

\* the subquery looks for a record of the wrong processing type
hasCompletedSummarization_wrongType(uuid) ==
    \E i \in DOMAIN sandbox_ai_processing :
        /\ sandbox_ai_processing[i].message_uuid = uuid
        /\ sandbox_ai_processing[i].processing_type = "response_generation"
        /\ sandbox_ai_processing[i].processing_status = "completed"

\* the NOT EXISTS clause left out of messagesQuery
hasCompletedSummarization_never(uuid) == FALSE

\* SELECT 1 FROM sandbox_ai_processing ... of messagesQuery
hasCompletedSummarization(uuid) ==
    \E i \in DOMAIN sandbox_ai_processing :
        /\ sandbox_ai_processing[i].message_uuid = uuid
        /\ sandbox_ai_processing[i].processing_type = "summarization"
        /\ sandbox_ai_processing[i].processing_status = "completed"

\* ORDER BY timestamp DESC in the place of ASC
OrderedByTimestamp_desc(S) ==
    { q \in [1..Cardinality(S) -> S] :
        /\ \A i, j \in DOMAIN q : i # j => q[i] # q[j]
        /\ \A i, j \in DOMAIN q : i < j => q[i].timestamp >= q[j].timestamp }

\* ORDER BY timestamp ASC: every order of the rows the clause allows
OrderedByTimestamp(S) ==
    { q \in [1..Cardinality(S) -> S] :
        /\ \A i, j \in DOMAIN q : i # j => q[i] # q[j]
        /\ \A i, j \in DOMAIN q : i < j => q[i].timestamp <= q[j].timestamp }

messagesQuery ==
    OrderedByTimestamp({ m \in Inbound : /\ m.sandbox_session_id = SessionId
                                         /\ ~hasCompletedSummarization(m.message_uuid) })

-----------------------------------------------------------------------------
(* historyQuery and buildMessageContext *)

HistoryLimit == 10

\* WHERE sandbox_session_id = $1 AND timestamp <= $2
Earlier_orEqual(timestamp) ==
    { m \in message_log : m.sandbox_session_id = SessionId /\ m.timestamp <= timestamp }

\* WHERE sandbox_session_id = $1 AND timestamp < $2
Earlier(timestamp) ==
    { m \in message_log : m.sandbox_session_id = SessionId /\ m.timestamp < timestamp }

\* ORDER BY timestamp DESC; rows of equal timestamp come in an order the store
\* picks: by identity, upwards or downwards
RowKey(m) == 2 * m.message_uuid.n + (IF m.message_type = "Inbound" THEN 0 ELSE 1)

RECURSIVE NewestFirst(_, _)
NewestFirst(S, upwards) ==
    IF S = {} THEN << >>
    ELSE LET first == CHOOSE m \in S : \A o \in S :
                        \/ o.timestamp < m.timestamp
                        \/ /\ o.timestamp = m.timestamp
                           /\ IF upwards THEN RowKey(m) <= RowKey(o) ELSE RowKey(m) >= RowKey(o)
         IN << first >> \o NewestFirst(S \ { first }, upwards)

\* SELECT message_body, message_type, timestamp ... LIMIT 10
historyQuery(timestamp) ==
    { LET sorted == NewestFirst(Earlier(timestamp), upwards)
          rows == SubSeq(sorted, 1, IF Len(sorted) < HistoryLimit THEN Len(sorted) ELSE HistoryLimit)
      IN [ i \in DOMAIN rows |-> [ message_body |-> rows[i].message_body,
                                   message_type |-> rows[i].message_type,
                                   timestamp |-> rows[i].timestamp ] ]
      : upwards \in BOOLEAN }

\* the value of a column that is NULL, as opposed to the text "null"
Null == "<NULL>"

\* the value of a property an object does not have
Undefined == "<undefined>"

\* a || b
OrElse(a, b) == IF a \in { Null, Undefined, "" } THEN b ELSE a

\* object.key
Get(object, key) == IF key \in DOMAIN object THEN object[key] ELSE Undefined

\* {}
EmptyObject == [ key \in {} |-> Undefined ]

\* the conversationHistory of the context
historyTriples(history) ==
    [ i \in DOMAIN history |-> [ text |-> history[i].message_body,
                                 type |-> history[i].message_type,
                                 timestamp |-> history[i].timestamp ] ]

\* const scenarioData = message.scenario_data, with no default: reading
\* property_id of null is a TypeError
buildMessageContext_noDefault(message, history) ==
    IF "scenario_data" \notin DOMAIN message \/ message.scenario_data = << >>
    THEN [ thrown |-> "TypeError" ]
    ELSE LET scenarioData == message.scenario_data[1] IN
         [ property |-> [ id |-> Get(scenarioData, "property_id"),
                          name |-> Get(message, "property_name"),
                          address |-> Get(message, "property_address"),
                          checkIn |-> Get(message, "check_in_time"),
                          checkOut |-> Get(message, "check_out_time") ],
           guest |-> [ name |-> OrElse(Get(scenarioData, "guest_name"), "Guest"),
                       phone |-> message.from_number,
                       bookingDates |-> [ checkIn |-> Get(scenarioData, "check_in_date"),
                                          checkOut |-> Get(scenarioData, "check_out_date") ] ],
           conversationHistory |-> historyTriples(history) ]

\* scenario_data is << >> when the column is NULL and << object >> when it
\* holds a JSON object; a row without the column reads as undefined
buildMessageContext(message, history) ==
    LET scenarioData == IF "scenario_data" \in DOMAIN message /\ message.scenario_data # << >>
                        THEN message.scenario_data[1]
                        ELSE EmptyObject
    IN [ property |-> [ id |-> Get(scenarioData, "property_id"),
                        name |-> Get(message, "property_name"),
                        address |-> Get(message, "property_address"),
                        checkIn |-> Get(message, "check_in_time"),
                        checkOut |-> Get(message, "check_out_time") ],
         guest |-> [ name |-> OrElse(Get(scenarioData, "guest_name"), "Guest"),
                     phone |-> message.from_number,
                     bookingDates |-> [ checkIn |-> Get(scenarioData, "check_in_date"),
                                        checkOut |-> Get(scenarioData, "check_out_date") ] ],
         conversationHistory |-> historyTriples(history) ]

ProcessingRow(uuid, type, input, output) ==
    [ message_uuid |-> uuid,
      processing_type |-> type,
      input_data |-> input,
      output_data |-> output,
      ai_model |-> "gpt-4o-mini",
      processing_status |-> "completed" ]

-----------------------------------------------------------------------------
(* createStaffTasks, determineTaskDetails *)

RECURSIVE join(_, _)
join(seq, sep) ==
    IF Len(seq) = 0 THEN ""
    ELSE IF Len(seq) = 1 THEN seq[1]
    ELSE seq[1] \o sep \o join(Tail(seq), sep)

\* the gate as the category-or-priority test
needsTask_byCategory(summary) ==
    /\ summary.actionRequired
    /\ (summary.category \in {"maintenance", "cleaning"} \/ summary.priority = "urgent")

needsTask(summary) ==
    /\ summary.actionRequired
    /\ summary.priority \in {"maintenance", "cleaning", "urgent"}

\* the complaint case left out of the switch
determineTaskDetails_noComplaint(summary) ==
    LET title == IF summary.actionTitle # "" THEN summary.actionTitle ELSE "Guest Request"
        description == "Category: " \o summary.category \o "\nPriority: " \o summary.priority
                         \o "\nDetails: " \o join(summary.keyInformation, ", ")
        details(type, name, role) ==
            [ title |-> title, description |-> description, type |-> type,
              assignee_name |-> name, assignee_role |-> role ]
    IN CASE summary.category = "maintenance" ->
              details("maintenance", "Maintenance Team", "Maintenance Staff")
         [] summary.category = "cleaning" ->
              details("cleaning", "Cleaning Team", "Cleaning Staff")
         [] OTHER ->
              details("general", "Support Team", "Support Staff")

determineTaskDetails(summary) ==
    LET title == IF summary.actionTitle # "" THEN summary.actionTitle ELSE "Guest Request"
        description == "Category: " \o summary.category \o "\nPriority: " \o summary.priority
                         \o "\nDetails: " \o join(summary.keyInformation, ", ")
        details(type, name, role) ==
            [ title |-> title, description |-> description, type |-> type,
              assignee_name |-> name, assignee_role |-> role ]
    IN CASE summary.category = "maintenance" ->
              details("maintenance", "Maintenance Team", "Maintenance Staff")
         [] summary.category = "cleaning" ->
              details("cleaning", "Cleaning Team", "Cleaning Staff")
         [] summary.category = "complaint" ->
              details("inspection", "Property Manager", "Management")
         [] OTHER ->
              details("general", "Support Team", "Support Staff")

TaskRow(uuid, taskDetails, summary) ==
    [ task_uuid |-> uuid,
      task_type |-> taskDetails.type,
      title |-> taskDetails.title,
      description |-> taskDetails.description,
      property_id |-> "null",
      assignee_name |-> taskDetails.assignee_name,
      assignee_role |-> taskDetails.assignee_role,
      status |-> "pending",
      priority |-> summary.summary.priority,
      created_from_message_uuid |-> summary.message_uuid,
      metadata |-> [ summary |-> summary.summary ],
      created_at |-> now ]

-----------------------------------------------------------------------------
(* evaluateTaskStatus, processHostEscalations *)

FollowUpHours == 2

\* the status test of the loop left out: the query has filtered the statuses
evaluateTaskStatus_anyOpen ==
    LET open == SelectSeq(sandbox_tasks, LAMBDA t : t.status \in {"pending", "in-progress"})
        due == SelectSeq(open, LAMBDA t : now - t.created_at > FollowUpHours)
    IN [ i \in DOMAIN due |->
           [ task_uuid |-> due[i].task_uuid,
             message |-> "Following up on " \o due[i].title \o " - this task has been pending for "
                           \o ToString(now - due[i].created_at) \o " hours.",
             type |-> "reminder" ] ]

\* a task is reminded of once: the tasks a returned result holds a reminder of
\* are left out
evaluateTaskStatus_once ==
    LET open == SelectSeq(sandbox_tasks, LAMBDA t : t.status \in {"pending", "in-progress"})
        reminded(t) == \E i \in DOMAIN outcomes :
                          /\ outcomes[i].success
                          /\ \E j \in DOMAIN outcomes[i].followUps :
                                outcomes[i].followUps[j].task_uuid = t.task_uuid
        due == SelectSeq(open, LAMBDA t : /\ now - t.created_at > FollowUpHours
                                          /\ t.status = "pending"
                                          /\ ~reminded(t))
    IN [ i \in DOMAIN due |->
           [ task_uuid |-> due[i].task_uuid,
             message |-> "Following up on " \o due[i].title \o " - this task has been pending for "
                           \o ToString(now - due[i].created_at) \o " hours.",
             type |-> "reminder" ] ]

evaluateTaskStatus ==
    LET open == SelectSeq(sandbox_tasks, LAMBDA t : t.status \in {"pending", "in-progress"})
        due == SelectSeq(open, LAMBDA t : now - t.created_at > FollowUpHours /\ t.status = "pending")
    IN [ i \in DOMAIN due |->
           [ task_uuid |-> due[i].task_uuid,
             message |-> "Following up on " \o due[i].title \o " - this task has been pending for "
                           \o ToString(now - due[i].created_at) \o " hours.",
             type |-> "reminder" ] ]

\* the sentiment test left out
processHostEscalations_priorityOnly(summaries) ==
    LET urgent == SelectSeq(summaries, LAMBDA s : s.summary.priority = "urgent")
    IN [ i \in DOMAIN urgent |->
           [ message_uuid |-> urgent[i].message_uuid,
             reason |-> "Urgent guest request",
             summary |-> urgent[i].summary,
             recommended_action |-> "Immediate host attention required" ] ]

\* only the summaries that ask for action are escalated
processHostEscalations_actionable(summaries) ==
    LET urgent == SelectSeq(summaries, LAMBDA s : /\ s.summary.actionRequired
                                                  /\ \/ s.summary.priority = "urgent"
                                                     \/ s.summary.sentiment = "urgent")
    IN [ i \in DOMAIN urgent |->
           [ message_uuid |-> urgent[i].message_uuid,
             reason |-> "Urgent guest request",
             summary |-> urgent[i].summary,
             recommended_action |-> "Immediate host attention required" ] ]

processHostEscalations(summaries) ==
    LET urgent == SelectSeq(summaries, LAMBDA s : s.summary.priority = "urgent" \/ s.summary.sentiment = "urgent")
    IN [ i \in DOMAIN urgent |->
           [ message_uuid |-> urgent[i].message_uuid,
             reason |-> "Urgent guest request",
             summary |-> urgent[i].summary,
             recommended_action |-> "Immediate host attention required" ] ]

-----------------------------------------------------------------------------
(* The calls of runFullAutomation *)

\* conn: the connections of the pool the call holds
IdleRun ==
    [ pc |-> "idle", rows |-> << >>, k |-> 0, summaries |-> << >>,
      responses |-> << >>, tasks |-> << >> , followUps |-> << >>, conn |-> 0 ]

\* pool.connect() at the start of a stage, client.release() in its finally
connect(conn) == conn + 1
release(conn) == conn - 1

Idle(r) == run[r].pc = "idle"

Init ==
    /\ openai \in BOOLEAN
    /\ now = 0
    /\ nextId = 1
    /\ message_log = {}
    /\ sandbox_ai_processing = << >>
    /\ sandbox_tasks = << >>
    /\ run = [ r \in Runs |-> IdleRun ]
    /\ started = 0
    /\ outcomes = << >>
    /\ aiCalls = [ n \in {} |-> 0 ]
    /\ faults = MaxFaults
    /\ emitted = << >>
    /\ arg = ""
    /\ ret = << >>

Calls(uuid) == IF uuid.n \in DOMAIN aiCalls THEN aiCalls[uuid.n] ELSE 0

\* the webhook (outside the pipeline) logs an inbound message of the guest
Arrive ==
    /\ Cardinality(Inbound) < MaxMsgs
    /\ \E body \in InboundBodies :
         message_log' = message_log \cup { InboundRow(Cardinality(Inbound) + 1, body) }
    /\ UNCHANGED << openai, now, nextId, sandbox_ai_processing, sandbox_tasks,
                    run, started, outcomes, aiCalls, faults, emitted, arg, ret >>

Tick ==
    /\ now < MaxClock
    /\ now' = now + 1
    /\ UNCHANGED << openai, nextId, storeVars, run, started, outcomes, aiCalls, faults, emitted, arg, ret >>

\* the stage releases its connection at the end of its try block, not in a
\* finally: an error leaves it held
Raise_leak(r, error) ==
    /\ run' = [ run EXCEPT ![r] = [ IdleRun EXCEPT !.conn = run[r].conn ] ]
    /\ outcomes' = Append(outcomes, [ success |-> FALSE, error |-> error ])

\* the catch block of runFullAutomation returns what the stages produced so
\* far in the place of throwing
Raise_partial(r, error) ==
    /\ run' = [ run EXCEPT ![r] = [ IdleRun EXCEPT !.conn = release(run[r].conn) ] ]
    /\ outcomes' = Append(outcomes, [ success |-> FALSE,
                                      error |-> error,
                                      summaries |-> run[r].summaries,
                                      responses |-> run[r].responses,
                                      tasks |-> run[r].tasks ])

\* the error leaves the stage through its finally block and runFullAutomation
\* rethrows it: the call ends with the error and nothing else
Raise(r, error) ==
    /\ run' = [ run EXCEPT ![r] = [ IdleRun EXCEPT !.conn = release(run[r].conn) ] ]
    /\ outcomes' = Append(outcomes, [ success |-> FALSE, error |-> error ])

\* a statement of the store throws
Throw(r, error) ==
    /\ faults > 0
    /\ faults' = faults - 1
    /\ Raise(r, error)

\* runFullAutomation is called; processSummarizeMessages runs messagesQuery
StartRun(r) ==
    /\ Idle(r)
    /\ started < MaxRuns
    /\ started' = started + 1
    /\ \E rows \in messagesQuery :
         run' = [ run EXCEPT ![r] = [ IdleRun EXCEPT !.pc = "summarize", !.rows = rows, !.k = 1,
                                                     !.conn = connect(run[r].conn) ] ]
    /\ UNCHANGED << openai, now, nextId, storeVars, outcomes, aiCalls, faults, emitted, arg, ret >>

\* the INSERT in a try of its own: when it throws, the error is logged and the
\* summary is pushed all the same
Summarize_swallow(r) ==
    /\ run[r].pc = "summarize"
    /\ run[r].k <= Len(run[r].rows)
    /\ LET message == run[r].rows[run[r].k] IN
       /\ aiCalls' = IF openai
                     THEN [ n \in DOMAIN aiCalls \cup { message.message_uuid.n } |->
                              IF n = message.message_uuid.n
                              THEN Calls(message.message_uuid) + 1 ELSE aiCalls[n] ]
                     ELSE aiCalls
       /\ \E history \in historyQuery(message.timestamp),
             summary \in generateMessageSummary(message) :
            /\ run' = [ run EXCEPT ![r].k = @ + 1,
                                   ![r].summaries =
                                       Append(@, [ message_uuid |-> message.message_uuid,
                                                   original_message |-> message.message_body,
                                                   summary |-> summary ]) ]
            /\ \/ /\ sandbox_ai_processing' =
                        Append(sandbox_ai_processing,
                               ProcessingRow(message.message_uuid, "summarization",
                                             [ message |-> message.message_body,
                                               context |-> buildMessageContext(message, history) ],
                                             summary))
                  /\ UNCHANGED faults
               \/ /\ faults > 0
                  /\ faults' = faults - 1
                  /\ UNCHANGED sandbox_ai_processing
            /\ UNCHANGED outcomes
    /\ UNCHANGED << openai, now, nextId, message_log, sandbox_tasks, started, emitted, arg, ret >>

\* one iteration of the loop of processSummarizeMessages
Summarize(r) ==
    /\ run[r].pc = "summarize"
    /\ run[r].k <= Len(run[r].rows)
    /\ LET message == run[r].rows[run[r].k] IN
       /\ aiCalls' = IF openai
                     THEN [ n \in DOMAIN aiCalls \cup { message.message_uuid.n } |->
                              IF n = message.message_uuid.n
                              THEN Calls(message.message_uuid) + 1 ELSE aiCalls[n] ]
                     ELSE aiCalls
       /\ \E history \in historyQuery(message.timestamp),
             summary \in generateMessageSummary(message) :
            \/ /\ sandbox_ai_processing' =
                     Append(sandbox_ai_processing,
                            ProcessingRow(message.message_uuid, "summarization",
                                          [ message |-> message.message_body,
                                            context |-> buildMessageContext(message, history) ],
                                          summary))
               /\ run' = [ run EXCEPT ![r].k = @ + 1,
                                      ![r].summaries =
                                          Append(@, [ message_uuid |-> message.message_uuid,
                                                      original_message |-> message.message_body,
                                                      summary |-> summary ]) ]
               /\ UNCHANGED << outcomes, faults >>
            \/ /\ Throw(r, "insert sandbox_ai_processing")
               /\ UNCHANGED sandbox_ai_processing
    /\ UNCHANGED << openai, now, nextId, message_log, sandbox_tasks, started, emitted, arg, ret >>

\* steps 2 and 3 of runFullAutomation exchanged: createStaffTasks starts when
\* processSummarizeMessages returns
SummarizeReturn_toTasks(r) ==
    /\ run[r].pc = "summarize"
    /\ run[r].k > Len(run[r].rows)
    /\ run' = [ run EXCEPT ![r].pc = "tasks", ![r].k = 1,
                           ![r].conn = connect(release(@)) ]
    /\ emitted' = Append(emitted, [ rows |-> run[r].rows, summaries |-> run[r].summaries ])
    /\ UNCHANGED << openai, now, nextId, storeVars, started, outcomes, aiCalls, faults, arg, ret >>

\* processSummarizeMessages returns; buildAiResponseFromSummaries starts
SummarizeReturn(r) ==
    /\ run[r].pc = "summarize"
    /\ run[r].k > Len(run[r].rows)
    /\ run' = [ run EXCEPT ![r].pc = "respond", ![r].k = 1,
                           ![r].conn = connect(release(@)) ]
    /\ emitted' = Append(emitted, [ rows |-> run[r].rows, summaries |-> run[r].summaries ])
    /\ UNCHANGED << openai, now, nextId, storeVars, started, outcomes, aiCalls, faults, arg, ret >>

\* the body of the reply taken from the summary's suggestedResponse
OutboundRow_suggested(uuid, summary, response) ==
    [ message_uuid |-> uuid,
      sandbox_session_id |-> SessionId,
      timestamp |-> now,
      from_number |-> "System",
      to_number |-> "Guest",
      message_body |-> summary.summary.suggestedResponse,
      message_type |-> "Outbound",
      requestor_role |-> "ai",
      sandbox_metadata |-> { [ generated_from |-> summary.message_uuid,
                               summary |-> summary.summary ] } ]

OutboundRow(uuid, summary, response) ==
    [ message_uuid |-> uuid,
      sandbox_session_id |-> SessionId,
      timestamp |-> now,
      from_number |-> "System",
      \* summary.original_message is the body, a string: it has no from_number
      to_number |-> "Guest",
      message_body |-> response.message,
      message_type |-> "Outbound",
      requestor_role |-> "ai",
      sandbox_metadata |-> { [ generated_from |-> summary.message_uuid,
                               summary |-> summary.summary ] } ]

\* the skip left out: every summary is answered
skipResponse_never(summary) == FALSE

\* the test of buildAiResponseFromSummaries that skips a summary
skipResponse(summary) == ~summary.summary.actionRequired

\* one iteration of the loop of buildAiResponseFromSummaries
Respond(r) ==
    /\ run[r].pc = "respond"
    /\ run[r].k <= Len(run[r].summaries)
    /\ LET summary == run[r].summaries[run[r].k]
           messageUuid == Uuid("RESP", nextId)
       IN IF skipResponse(summary)
          THEN /\ run' = [ run EXCEPT ![r].k = @ + 1 ]
               /\ UNCHANGED << nextId, message_log, sandbox_ai_processing, outcomes, faults >>
          ELSE \E response \in generateAiResponse(summary) :
               \/ /\ message_log' = message_log \cup { OutboundRow(messageUuid, summary, response) }
                  /\ sandbox_ai_processing' =
                        Append(sandbox_ai_processing,
                               ProcessingRow(messageUuid, "response_generation",
                                             [ summary |-> summary.summary ], response))
                  /\ run' = [ run EXCEPT ![r].k = @ + 1,
                                         ![r].responses =
                                             Append(@, [ message_uuid |-> messageUuid,
                                                         response |-> response.message,
                                                         metadata |-> response ]) ]
                  /\ nextId' = nextId + 1
                  /\ UNCHANGED << outcomes, faults >>
               \/ /\ Throw(r, "insert message_log")
                  /\ UNCHANGED << nextId, message_log, sandbox_ai_processing >>
               \/ /\ message_log' = message_log \cup { OutboundRow(messageUuid, summary, response) }
                  /\ nextId' = nextId + 1
                  /\ Throw(r, "insert sandbox_ai_processing")
                  /\ UNCHANGED sandbox_ai_processing
    /\ UNCHANGED << openai, now, sandbox_tasks, started, aiCalls, emitted, arg, ret >>

\* buildAiResponseFromSummaries returns; createStaffTasks starts
RespondReturn(r) ==
    /\ run[r].pc = "respond"
    /\ run[r].k > Len(run[r].summaries)
    /\ run' = [ run EXCEPT ![r].pc = "tasks", ![r].k = 1,
                           ![r].conn = connect(release(@)) ]
    /\ UNCHANGED << openai, now, nextId, storeVars, started, outcomes, aiCalls, faults, emitted, arg, ret >>

\* one iteration of the loop of createStaffTasks
CreateTask(r) ==
    /\ run[r].pc = "tasks"
    /\ run[r].k <= Len(run[r].summaries)
    /\ LET summary == run[r].summaries[run[r].k]
           taskDetails == determineTaskDetails(summary.summary)
           taskUuid == Uuid("TASK", nextId)
       IN IF ~needsTask(summary.summary)
          THEN /\ run' = [ run EXCEPT ![r].k = @ + 1 ]
               /\ UNCHANGED << nextId, sandbox_tasks, outcomes, faults >>
          ELSE IF "keyInformation" \notin DOMAIN summary.summary
          \* determineTaskDetails: summary.keyInformation.join on undefined
          THEN /\ Raise(r, "TypeError")
               /\ UNCHANGED << nextId, sandbox_tasks, faults >>
          ELSE \/ /\ sandbox_tasks' = Append(sandbox_tasks, TaskRow(taskUuid, taskDetails, summary))
                  /\ run' = [ run EXCEPT ![r].k = @ + 1,
                                         ![r].tasks = Append(@, [ task_uuid |-> taskUuid,
                                                                  details |-> taskDetails ]) ]
                  /\ nextId' = nextId + 1
                  /\ UNCHANGED << outcomes, faults >>
               \/ /\ Throw(r, "insert sandbox_tasks")
                  /\ UNCHANGED << nextId, sandbox_tasks >>
    /\ UNCHANGED << openai, now, message_log, sandbox_ai_processing, started, aiCalls, emitted, arg, ret >>

\* evaluateTaskStatus moves every task it reminds of to in-progress
FollowUps_transition(r) ==
    /\ run[r].pc = "tasks"
    /\ run[r].k > Len(run[r].summaries)
    /\ run' = [ run EXCEPT ![r].pc = "escalations", ![r].followUps = evaluateTaskStatus,
                           ![r].conn = release(connect(release(@))) ]
    /\ sandbox_tasks' =
          [ i \in DOMAIN sandbox_tasks |->
              IF \E j \in DOMAIN evaluateTaskStatus :
                     evaluateTaskStatus[j].task_uuid = sandbox_tasks[i].task_uuid
              THEN [ sandbox_tasks[i] EXCEPT !.status = "in-progress" ]
              ELSE sandbox_tasks[i] ]
    /\ UNCHANGED << openai, now, nextId, message_log, sandbox_ai_processing, started, outcomes,
                    aiCalls, faults, emitted, arg, ret >>

\* createStaffTasks returns; evaluateTaskStatus runs its query and its loop
FollowUps(r) ==
    /\ run[r].pc = "tasks"
    /\ run[r].k > Len(run[r].summaries)
    \* createStaffTasks releases; evaluateTaskStatus connects, reads and releases
    /\ run' = [ run EXCEPT ![r].pc = "escalations", ![r].followUps = evaluateTaskStatus,
                           ![r].conn = release(connect(release(@))) ]
    /\ UNCHANGED << openai, now, nextId, storeVars, started, outcomes, aiCalls, faults, emitted, arg, ret >>

\* the call deletes the summarization records of its summaries when it returns
Return_prune(r) ==
    /\ run[r].pc = "escalations"
    /\ outcomes' = Append(outcomes,
                          [ success |-> TRUE,
                            summaries |-> run[r].summaries,
                            responses |-> run[r].responses,
                            tasks |-> run[r].tasks,
                            followUps |-> run[r].followUps,
                            escalations |-> processHostEscalations(run[r].summaries) ])
    /\ run' = [ run EXCEPT ![r] = [ IdleRun EXCEPT !.conn = run[r].conn ] ]
    /\ LET kept(row) == \/ row.processing_type # "summarization"
                        \/ \A j \in DOMAIN run[r].summaries :
                              run[r].summaries[j].message_uuid # row.message_uuid
       IN sandbox_ai_processing' = SelectSeq(sandbox_ai_processing, kept)
    /\ UNCHANGED << openai, now, nextId, message_log, sandbox_tasks, started, aiCalls, faults,
                    emitted, arg, ret >>

\* processHostEscalations runs and runFullAutomation returns its result
Return(r) ==
    /\ run[r].pc = "escalations"
    /\ outcomes' = Append(outcomes,
                          [ success |-> TRUE,
                            summaries |-> run[r].summaries,
                            responses |-> run[r].responses,
                            tasks |-> run[r].tasks,
                            followUps |-> run[r].followUps,
                            escalations |-> processHostEscalations(run[r].summaries) ])
    /\ run' = [ run EXCEPT ![r] = [ IdleRun EXCEPT !.conn = run[r].conn ] ]
    /\ UNCHANGED << openai, now, nextId, storeVars, started, aiCalls, faults, emitted, arg, ret >>

Step(r) ==
    \/ Summarize(r)
    \/ SummarizeReturn(r)
    \/ Respond(r)
    \/ RespondReturn(r)
    \/ CreateTask(r)
    \/ FollowUps(r)
    \/ Return(r)

Next ==
    \/ Arrive
    \/ Tick
    \/ \E r \in Runs : StartRun(r)
    \/ \E r \in Runs : Step(r)

\* runs that interleave
Spec == Init /\ [][Next]_vars

\* a call starts only when no other call is in progress (which of the two it is
\* makes no difference then)
StartRunAlone(r) ==
    /\ \A q \in Runs : Idle(q)
    /\ r = "r1"
    /\ StartRun(r)

\* the clock advances between the calls
TickAlone ==
    /\ \A q \in Runs : Idle(q)
    /\ Tick

NextSeq ==
    \/ Arrive
    \/ TickAlone
    \/ \E r \in Runs : StartRunAlone(r)
    \/ \E r \in Runs : Step(r)

\* runs one after the other, with no overlap
SpecSeq == Init /\ [][NextSeq]_vars


\* runs that interleave over a session that holds one inbound message
InitRace ==
    /\ openai \in BOOLEAN
    /\ now = 0
    /\ nextId = 1
    /\ \E body \in InboundBodies : message_log = { InboundRow(1, body) }
    /\ sandbox_ai_processing = << >>
    /\ sandbox_tasks = << >>
    /\ run = [ r \in Runs |-> IdleRun ]
    /\ started = 0
    /\ outcomes = << >>
    /\ aiCalls = [ n \in {} |-> 0 ]
    /\ faults = MaxFaults
    /\ emitted = << >>
    /\ arg = ""
    /\ ret = << >>

NextRace ==
    \/ \E r \in Runs : StartRun(r)
    \/ \E r \in Runs : Step(r)

SpecRace == InitRace /\ [][NextRace]_vars

-----------------------------------------------------------------------------
(* The fallbacks as functions of the message body: a body is classified by *)
(* getMockSummary and the summary is answered by getMockResponse           *)

Phrases ==
    { "", "hello", "where is the key", "KEY", "Check In", "checking", "no Access",
      "WiFi", "it is Broken", "fix", "NOISE", "a complaint", "Problem", "not clean",
      "CLEANING" }

Bodies ==
    { a \o " and " \o b : a, b \in Phrases } \cup Phrases \cup InboundBodies

InitFn ==
    /\ openai = FALSE
    /\ now = 0
    /\ nextId = 1
    /\ message_log = {}
    /\ sandbox_ai_processing = << >>
    /\ sandbox_tasks = << >>
    /\ run = [ r \in Runs |-> IdleRun ]
    /\ started = 0
    /\ outcomes = << >>
    /\ aiCalls = [ n \in {} |-> 0 ]
    /\ faults = 0
    /\ emitted = << >>
    /\ arg \in Bodies
    /\ ret = << >>

Classify ==
    /\ ret = << >>
    /\ ret' = << getMockSummary(arg) >>
    /\ UNCHANGED << openai, now, nextId, storeVars, run, started, outcomes, aiCalls,
                    faults, emitted, arg >>

Reply ==
    /\ Len(ret) = 1
    /\ ret' = Append(ret, getMockResponse(ret[1]))
    /\ UNCHANGED << openai, now, nextId, storeVars, run, started, outcomes, aiCalls,
                    faults, emitted, arg >>

NextFn == Classify \/ Reply

SpecFn == InitFn /\ [][NextFn]_vars

-----------------------------------------------------------------------------
(* generateMessageSummary and generateAiResponse as functions of the       *)
(* outcome of the completion call                                          *)

InitAI ==
    /\ openai \in BOOLEAN
    /\ now = 0
    /\ nextId = 1
    /\ message_log = {}
    /\ sandbox_ai_processing = << >>
    /\ sandbox_tasks = << >>
    /\ run = [ r \in Runs |-> IdleRun ]
    /\ started = 0
    /\ outcomes = << >>
    /\ aiCalls = [ n \in {} |-> 0 ]
    /\ faults = 0
    /\ emitted = << >>
    /\ arg \in [ message : { InboundRow(1, body) : body \in InboundBodies \cup Phrases },
                 summaryCompletion : SummaryCompletions,
                 responseCompletion : ResponseCompletions ]
    /\ ret = << >>

\* processSummarizeMessages calls generateMessageSummary for the message
CallSummary ==
    /\ ret = << >>
    /\ ret' = << [ message_uuid |-> arg.message.message_uuid,
                   original_message |-> arg.message.message_body,
                   summary |-> generateMessageSummaryFrom(arg.message, arg.summaryCompletion) ] >>
    /\ UNCHANGED << openai, now, nextId, storeVars, run, started, outcomes, aiCalls,
                    faults, emitted, arg >>

\* buildAiResponseFromSummaries calls generateAiResponse for the summary
CallResponse ==
    /\ Len(ret) = 1
    /\ ~skipResponse(ret[1])
    /\ ret' = Append(ret, generateAiResponseFrom(ret[1], arg.responseCompletion))
    /\ UNCHANGED << openai, now, nextId, storeVars, run, started, outcomes, aiCalls,
                    faults, emitted, arg >>

NextAI == CallSummary \/ CallResponse

SpecAI == InitAI /\ [][NextAI]_vars

-----------------------------------------------------------------------------
(* A call on a session that holds several inbound messages whose timestamps *)
(* are in no relation to their identities                                   *)

InitOrder ==
    /\ openai \in BOOLEAN
    /\ now = MaxOrder
    /\ nextId = 1
    \* every assignment of timestamps when the service is not configured and
    \* no store write throws; with the service, or with store writes that throw,
    \* the log whose timestamps run against the identities
    /\ \E ts \in [1..MaxOrder -> 0..(MaxOrder - 1)] :
          /\ faults \in { 0, MaxFaults }
          /\ openai => faults = 0
          /\ (openai \/ faults > 0) => \A n \in 1..MaxOrder : ts[n] = MaxOrder - n
          /\ message_log =
                { [ InboundRow(n, IF n % 2 = 1 THEN WifiMessage ELSE "Hello, what a lovely place")
                      EXCEPT !.timestamp = ts[n] ] : n \in 1..MaxOrder }
    /\ sandbox_ai_processing = << >>
    /\ sandbox_tasks = << >>
    /\ run = [ r \in Runs |-> IdleRun ]
    /\ started = 0
    /\ outcomes = << >>
    /\ aiCalls = [ n \in {} |-> 0 ]
    /\ emitted = << >>
    /\ arg = ""
    /\ ret = << >>

NextOrder ==
    \/ \E r \in Runs : StartRunAlone(r)
    \/ \E r \in Runs : Step(r)

SpecOrder == InitOrder /\ [][NextOrder]_vars

-----------------------------------------------------------------------------
(* The history of a message of a log that holds rows of two sessions, of    *)
(* both types, with equal timestamps and with timestamps that run with or   *)
(* against the identities                                                   *)

LogRow(n, timestamp) ==
    LET row == [ InboundRow(n, "message " \o ToString(n)) EXCEPT !.timestamp = timestamp ]
        typed == IF n % 2 = 1 THEN row
                 ELSE [ row EXCEPT !.message_uuid = Uuid("RESP", n),
                                   !.from_number = "System",
                                   !.to_number = "Guest",
                                   !.message_type = "Outbound",
                                   !.requestor_role = "ai" ]
    IN IF n % 4 = 0 THEN [ typed EXCEPT !.sandbox_session_id = "session-2" ] ELSE typed

InitCtx ==
    /\ openai = FALSE
    /\ now = MaxLog
    /\ nextId = 1
    /\ \E k \in 1..MaxLog, d \in 1..2, backwards \in BOOLEAN :
          message_log = { LogRow(n, (IF backwards THEN k - n ELSE n) \div d) : n \in 1..k }
    /\ sandbox_ai_processing = << >>
    /\ sandbox_tasks = << >>
    /\ run = [ r \in Runs |-> IdleRun ]
    /\ started = 0
    /\ outcomes = << >>
    /\ aiCalls = [ n \in {} |-> 0 ]
    /\ faults = 0
    /\ emitted = << >>
    /\ arg \in { m \in Inbound : m.sandbox_session_id = SessionId }
    /\ ret = << >>

\* one iteration of the loop of processSummarizeMessages, up to the context
BuildContext ==
    /\ ret = << >>
    /\ \E history \in historyQuery(arg.timestamp) :
          ret' = << buildMessageContext(arg, history) >>
    /\ UNCHANGED << openai, now, nextId, storeVars, run, started, outcomes, aiCalls,
                    faults, emitted, arg >>

NextCtx == BuildContext

SpecCtx == InitCtx /\ [][NextCtx]_vars

-----------------------------------------------------------------------------
(* evaluateTaskStatus on a table of tasks of every status, called as the    *)
(* clock advances                                                           *)

TaskStatuses == { "pending", "in-progress", "completed", "cancelled" }

StoredTask(n, status, created_at) ==
    LET summary == [ message_uuid |-> Uuid("MSG", n),
                     original_message |-> WifiMessage,
                     summary |-> SummaryOf("neutral", TRUE, "Call the guest", "general", "urgent") ]
    IN [ TaskRow(Uuid("TASK", n), determineTaskDetails(summary.summary), summary)
           EXCEPT !.status = status, !.created_at = created_at ]

InitFollow ==
    /\ openai = FALSE
    /\ now \in 0..MaxClock
    /\ nextId = 1
    /\ message_log = {}
    /\ sandbox_ai_processing = << >>
    /\ \E k \in 0..MaxTasks :
          \E status \in [1..k -> TaskStatuses], created_at \in [1..k -> 0..now] :
              /\ \A i, j \in 1..k : i < j => created_at[i] <= created_at[j]
              /\ sandbox_tasks = [ n \in 1..k |-> StoredTask(n, status[n], created_at[n]) ]
    /\ run = [ r \in Runs |-> IdleRun ]
    /\ started = 0
    /\ outcomes = << >>
    /\ aiCalls = [ n \in {} |-> 0 ]
    /\ faults = 0
    /\ emitted = << >>
    /\ arg = ""
    /\ ret = << >>

\* an hour passes
Elapse ==
    /\ now < MaxAge
    /\ now' = now + 1
    /\ UNCHANGED << openai, nextId, storeVars, run, started, outcomes, aiCalls, faults,
                    emitted, arg, ret >>

\* runFullAutomation calls evaluateTaskStatus
Evaluate ==
    /\ Len(ret) < MaxEvals
    /\ ret' = Append(ret, [ at |-> now, followUps |-> evaluateTaskStatus ])
    /\ UNCHANGED << openai, now, nextId, storeVars, run, started, outcomes, aiCalls,
                    faults, emitted, arg >>

NextFollow == Elapse \/ Evaluate

SpecFollow == InitFollow /\ [][NextFollow]_vars

-----------------------------------------------------------------------------
(* processHostEscalations as a function of the summaries list *)

EscalationInputs ==
    { SummaryOf(sentiment, TRUE, "Call the guest", "general", priority) :
        sentiment \in { "neutral", "urgent" }, priority \in { "low", "high", "urgent" } }

InitEsc ==
    /\ openai = FALSE
    /\ now = 0
    /\ nextId = 1
    /\ message_log = {}
    /\ sandbox_ai_processing = << >>
    /\ sandbox_tasks = << >>
    /\ run = [ r \in Runs |-> IdleRun ]
    /\ started = 0
    /\ outcomes = << >>
    /\ aiCalls = [ n \in {} |-> 0 ]
    /\ faults = 0
    /\ emitted = << >>
    /\ \E k \in 0..MaxSummaries : \E summary \in [1..k -> EscalationInputs] :
          arg = [ i \in 1..k |-> [ message_uuid |-> Uuid("MSG", i),
                                   original_message |-> WifiMessage,
                                   summary |-> summary[i] ] ]
    /\ ret = << >>

\* runFullAutomation calls processHostEscalations
DetectEscalations ==
    /\ ret = << >>
    /\ ret' = << processHostEscalations(arg) >>
    /\ UNCHANGED << openai, now, nextId, storeVars, run, started, outcomes, aiCalls,
                    faults, emitted, arg >>

NextEsc == DetectEscalations

SpecEsc == InitEsc /\ [][NextEsc]_vars

-----------------------------------------------------------------------------
(* Calls on a session that holds one inbound message and tasks of earlier   *)
(* calls, of every status, created MaxAge hours ago                         *)

InitAged ==
    /\ openai \in BOOLEAN
    /\ now = MaxAge
    /\ \E body \in InboundBodies : message_log = { InboundRow(1, body) }
    /\ sandbox_ai_processing = << >>
    /\ \E k \in 0..MaxTasks : \E status \in [1..k -> TaskStatuses] :
          /\ sandbox_tasks = [ n \in 1..k |-> StoredTask(n, status[n], 0) ]
          /\ nextId = k + 1
    /\ run = [ r \in Runs |-> IdleRun ]
    /\ started = 0
    /\ outcomes = << >>
    /\ aiCalls = [ n \in {} |-> 0 ]
    /\ faults = MaxFaults
    /\ emitted = << >>
    /\ arg = ""
    /\ ret = << >>

NextAged ==
    \/ \E r \in Runs : StartRunAlone(r)
    \/ \E r \in Runs : Step(r)

SpecAged == InitAged /\ [][NextAged]_vars

-----------------------------------------------------------------------------
(* getMockResponse and the task of createStaffTasks as functions of a       *)
(* summary of any category and priority                                     *)

LookupCategories ==
    { "booking", "maintenance", "check-in", "check-out", "amenities", "complaint",
      "general", "cleaning", "parking" }

LookupSummaries ==
    { SummaryOf("neutral", actionRequired, actionTitle, category, priority) :
        actionRequired \in BOOLEAN, actionTitle \in { "", "Call the guest" },
        category \in LookupCategories, priority \in { "low", "medium", "high", "urgent" } }

InitLookup ==
    /\ openai \in BOOLEAN
    /\ now = 0
    /\ nextId = 1
    /\ \E body \in InboundBodies : message_log = { InboundRow(1, body) }
    /\ sandbox_ai_processing = << >>
    /\ sandbox_tasks = << >>
    /\ run = [ r \in Runs |-> IdleRun ]
    /\ started = 0
    /\ outcomes = << >>
    /\ aiCalls = [ n \in {} |-> 0 ]
    /\ faults = 0
    /\ emitted = << >>
    /\ \E m \in message_log, summary \in LookupSummaries :
          arg = [ message_uuid |-> m.message_uuid,
                  original_message |-> m.message_body,
                  summary |-> summary ]
    /\ ret = << >>

\* generateAiResponse falls back to getMockResponse for the summary
MockReply ==
    /\ ret = << >>
    /\ ret' = << getMockResponse(arg.summary) >>
    /\ UNCHANGED << openai, now, nextId, storeVars, run, started, outcomes, aiCalls,
                    faults, emitted, arg >>

\* one iteration of the loop of createStaffTasks for the summary
InsertTask ==
    /\ sandbox_tasks = << >>
    /\ needsTask(arg.summary)
    /\ sandbox_tasks' = << TaskRow(Uuid("TASK", nextId), determineTaskDetails(arg.summary), arg) >>
    /\ nextId' = nextId + 1
    /\ UNCHANGED << openai, now, message_log, sandbox_ai_processing, run, started, outcomes,
                    aiCalls, faults, emitted, arg, ret >>

NextLookup == MockReply \/ InsertTask

SpecLookup == InitLookup /\ [][NextLookup]_vars

-----------------------------------------------------------------------------
(* buildComprehensivePropertyInfo as a function of the property record      *)

\* the columns of the record in the order of Object.keys
PropertyColumns == << "id", "property_title", "name", "wifi_password", "door_code", "created_at" >>

PropertyValues == { Null, "", " ", "null", "1234", "Sea View" }

excludeKeys == { "id", "account_id", "created_at", "updated_at", "is_active", "faqs", "scenario_data" }

\* String(value).trim()
Trimmed(value) == IF value = " " THEN "" ELSE value

\* value && String(value).trim() && String(value).trim() !== 'null'
HasText(value) == value \notin { Null, "" } /\ Trimmed(value) # "" /\ Trimmed(value) # "null"

\* the named fields whose columns the record has
fieldMappings(propertyData) ==
    << << "Property Name", OrElse(propertyData.property_title, propertyData.name) >>,
       << "WiFi Password", propertyData.wifi_password >> >>

\* key.replace(/_/g, ' ').replace(/\b\w/g, l => l.toUpperCase())
LabelOf(key) ==
    CASE key = "id" -> "Id"
      [] key = "property_title" -> "Property Title"
      [] key = "name" -> "Name"
      [] key = "wifi_password" -> "Wifi Password"
      [] key = "door_code" -> "Door Code"
      [] key = "created_at" -> "Created At"

additionalFields(propertyData) ==
    LET mapped == { fieldMappings(propertyData)[i][2] : i \in 1..Len(fieldMappings(propertyData)) }
        keep(key) == /\ key \notin excludeKeys
                     /\ propertyData[key] \notin mapped
                     /\ HasText(propertyData[key])
    IN SelectSeq(PropertyColumns, keep)

buildComprehensivePropertyInfo(propertyData) ==
    IF propertyData.id = Null
    THEN "Property Information: Not available"
    ELSE LET shown(pair) == HasText(pair[2])
             named == SelectSeq(fieldMappings(propertyData), shown)
             more == additionalFields(propertyData)
             propertyLines ==
                 << "Property Information:" >>
                   \o [ i \in 1..Len(named) |-> "- " \o named[i][1] \o ": " \o named[i][2] ]
                   \o [ i \in 1..Len(more) |->
                          "- " \o LabelOf(more[i]) \o ": " \o propertyData[more[i]] ]
         IN join(propertyLines, "\n")

InitProperty ==
    /\ openai = TRUE
    /\ now = 0
    /\ nextId = 1
    /\ message_log = {}
    /\ sandbox_ai_processing = << >>
    /\ sandbox_tasks = << >>
    /\ run = [ r \in Runs |-> IdleRun ]
    /\ started = 0
    /\ outcomes = << >>
    /\ aiCalls = [ n \in {} |-> 0 ]
    /\ faults = 0
    /\ emitted = << >>
    /\ \E id \in { Null, "7" }, property_title \in PropertyValues, name \in PropertyValues,
          wifi_password \in PropertyValues, door_code \in PropertyValues :
          arg = [ id |-> id, property_title |-> property_title, name |-> name,
                  wifi_password |-> wifi_password, door_code |-> door_code,
                  created_at |-> "2024-01-01" ]
    /\ ret = << >>

\* generateAiResponse builds the block for its prompt
BuildPropertyInfo ==
    /\ ret = << >>
    /\ ret' = << buildComprehensivePropertyInfo(arg) >>
    /\ UNCHANGED << openai, now, nextId, storeVars, run, started, outcomes, aiCalls,
                    faults, emitted, arg >>

NextProperty == BuildPropertyInfo

SpecProperty == InitProperty /\ [][NextProperty]_vars

-----------------------------------------------------------------------------
(* buildMessageContext on the rows of messagesQuery, which joins the        *)
(* session's scenario_data and the property it refers to                    *)

\* table properties
Properties ==
    [ id \in { "7" } |-> [ property_title |-> "Sea View",
                           property_location |-> "12 Shore Road",
                           check_in_time |-> "15:00",
                           check_out_time |-> "11:00" ] ]

\* sandbox_sessions.scenario_data: NULL, or an object with any of the keys
ScenarioData ==
    { << >> } \cup
    { << [ key \in keys |-> CASE key = "property_id" -> property_id
                              [] key = "guest_name" -> guest_name
                              [] key = "check_in_date" -> "2024-06-01"
                              [] key = "check_out_date" -> "2024-06-08" ] >> :
        keys \in { {}, { "property_id" }, { "guest_name" }, { "property_id", "guest_name" },
                   { "property_id", "guest_name", "check_in_date", "check_out_date" } },
        property_id \in { "7", "99" }, guest_name \in { "", "Ana" } }

\* JOIN sandbox_sessions ss ... LEFT JOIN properties p ON
\* (ss.scenario_data->>'property_id')::INTEGER = p.id: the columns of messagesQuery
joinScenario(ml, scenario_data) ==
    LET resolved == /\ scenario_data # << >>
                    /\ "property_id" \in DOMAIN scenario_data[1]
                    /\ scenario_data[1].property_id \in DOMAIN Properties
        p == Properties[scenario_data[1].property_id]
        joined == [ scenario_data |-> scenario_data,
                    property_name |-> IF resolved THEN p.property_title ELSE Null,
                    property_address |-> IF resolved THEN p.property_location ELSE Null,
                    check_in_time |-> IF resolved THEN p.check_in_time ELSE Null,
                    check_out_time |-> IF resolved THEN p.check_out_time ELSE Null ]
    IN [ column \in DOMAIN ml \cup DOMAIN joined |->
           IF column \in DOMAIN joined THEN joined[column] ELSE ml[column] ]

InitJoin ==
    /\ openai = FALSE
    /\ now = MaxPrior
    /\ nextId = 1
    /\ \E k \in 1..MaxPrior : message_log = { LogRow(n, n) : n \in 1..k }
    /\ sandbox_ai_processing = << >>
    /\ sandbox_tasks = << >>
    /\ run = [ r \in Runs |-> IdleRun ]
    /\ started = 0
    /\ outcomes = << >>
    /\ aiCalls = [ n \in {} |-> 0 ]
    /\ faults = 0
    /\ emitted = << >>
    /\ \E ml \in { m \in Inbound : m.sandbox_session_id = SessionId },
          scenario_data \in ScenarioData :
          arg = joinScenario(ml, scenario_data)
    /\ ret = << >>

NextJoin == BuildContext

SpecJoin == InitJoin /\ [][NextJoin]_vars

-----------------------------------------------------------------------------
(* calls of runFullAutomation with no completion configured, over messages  *)
(* of every kind the fallback tells apart                                   *)

InitFallback ==
    /\ openai = FALSE
    /\ now = MaxFallback
    /\ nextId = 1
    /\ \E k \in 1..MaxFallback : \E body \in [ 1..k -> Phrases \cup InboundBodies ] :
          message_log = { [ InboundRow(n, body[n]) EXCEPT !.timestamp = n ] : n \in 1..k }
    /\ sandbox_ai_processing = << >>
    /\ sandbox_tasks = << >>
    /\ run = [ r \in Runs |-> IdleRun ]
    /\ started = 0
    /\ outcomes = << >>
    /\ aiCalls = [ n \in {} |-> 0 ]
    /\ faults = 0
    /\ emitted = << >>
    /\ arg = ""
    /\ ret = << >>

NextFallback ==
    \/ \E r \in Runs : StartRunAlone(r)
    \/ \E r \in Runs : Step(r)

SpecFallback == InitFallback /\ [][NextFallback]_vars

-----------------------------------------------------------------------------
(* calls of runFullAutomation over stored tasks while the clock advances    *)
(* and the staff change the status of tasks                                 *)

InitRemind ==
    /\ openai \in BOOLEAN
    /\ now = MaxAge
    /\ \E body \in InboundBodies : message_log = { InboundRow(1, body) }
    /\ sandbox_ai_processing = << >>
    /\ \E k \in 0..MaxTasks : \E status \in [1..k -> TaskStatuses] :
          /\ sandbox_tasks = [ n \in 1..k |-> StoredTask(n, status[n], 0) ]
          /\ nextId = k + 1
    /\ run = [ r \in Runs |-> IdleRun ]
    /\ started = 0
    /\ outcomes = << >>
    /\ aiCalls = [ n \in {} |-> 0 ]
    /\ faults = 0
    /\ emitted = << >>
    /\ arg = ""
    /\ ret = << >>

\* an hour passes, during a call or between calls; no more than FollowUpHours
\* pass in all, so that no call lasts longer
Wait ==
    /\ now < MaxAge + FollowUpHours
    /\ now' = now + 1
    /\ UNCHANGED << openai, nextId, storeVars, run, started, outcomes, aiCalls, faults, emitted, arg, ret >>

\* outside the pipeline, between two calls, a pending task is taken in hand
StaffUpdate ==
    /\ \A r \in Runs : Idle(r)
    /\ \E i \in DOMAIN sandbox_tasks :
          /\ sandbox_tasks[i].status = "pending"
          /\ sandbox_tasks' = [ sandbox_tasks EXCEPT ![i].status = "in-progress" ]
    /\ UNCHANGED << openai, now, nextId, message_log, sandbox_ai_processing, run, started,
                    outcomes, aiCalls, faults, emitted, arg, ret >>

NextRemind ==
    \/ Wait
    \/ StaffUpdate
    \/ \E r \in Runs : StartRunAlone(r)
    \/ \E r \in Runs : Step(r)

SpecRemind == InitRemind /\ [][NextRemind]_vars

-----------------------------------------------------------------------------
(* the stages of a call that follow the Summarizer, over summaries of any   *)
(* urgency the completion can return                                        *)

UrgentSummaries ==
    { SummaryOf(sentiment, actionRequired, "Call the guest", category, priority) :
        sentiment \in { "neutral", "urgent" }, actionRequired \in BOOLEAN,
        category \in { "general", "maintenance" }, priority \in { "low", "urgent" } }

\* the state in which processSummarizeMessages has returned: every message has
\* its record and its entry in the summaries of the call
InitUrgent ==
    /\ openai = TRUE
    /\ now = MaxUrgent
    /\ nextId = 1
    /\ \E k \in 1..MaxUrgent : \E summary \in [ 1..k -> UrgentSummaries ] :
          LET rows == [ n \in 1..k |-> [ InboundRow(n, WifiMessage) EXCEPT !.timestamp = n ] ]
              summaries == [ n \in 1..k |-> [ message_uuid |-> rows[n].message_uuid,
                                              original_message |-> rows[n].message_body,
                                              summary |-> summary[n] ] ]
          IN /\ message_log = { rows[n] : n \in 1..k }
             /\ sandbox_ai_processing =
                   [ n \in 1..k |->
                       ProcessingRow(rows[n].message_uuid, "summarization",
                                     [ message |-> rows[n].message_body,
                                       context |-> buildMessageContext(rows[n],
                                                     [ i \in 1..(n - 1) |-> rows[n - i] ]) ],
                                     summary[n]) ]
             /\ run = [ r \in Runs |->
                          IF r = "r1"
                          THEN [ IdleRun EXCEPT !.pc = "respond", !.rows = rows, !.k = 1,
                                                !.summaries = summaries, !.conn = connect(0) ]
                          ELSE IdleRun ]
             /\ emitted = << [ rows |-> rows, summaries |-> summaries ] >>
             /\ aiCalls = [ n \in 1..k |-> 1 ]
    /\ sandbox_tasks = << >>
    /\ started = 1
    /\ outcomes = << >>
    /\ faults = 0
    /\ arg = ""
    /\ ret = << >>

NextUrgent ==
    \E r \in Runs :
        \/ Respond(r)
        \/ RespondReturn(r)
        \/ CreateTask(r)
        \/ FollowUps(r)
        \/ Return(r)

SpecUrgent == InitUrgent /\ [][NextUrgent]_vars

-----------------------------------------------------------------------------
(* Properties *)

CompletedRecords(uuid, type) ==
    { i \in DOMAIN sandbox_ai_processing :
        /\ sandbox_ai_processing[i].message_uuid = uuid
        /\ sandbox_ai_processing[i].processing_type = type
        /\ sandbox_ai_processing[i].processing_status = "completed" }

Tasks == { sandbox_tasks[i] : i \in DOMAIN sandbox_tasks }
TasksFrom(uuid) == { i \in DOMAIN sandbox_tasks : sandbox_tasks[i].created_from_message_uuid = uuid }
RepliesTo(uuid) == { m \in Outbound : \E d \in m.sandbox_metadata : d.generated_from = uuid }
BodyOf(uuid) == (CHOOSE m \in message_log : m.message_uuid = uuid).message_body
Returned == { i \in DOMAIN outcomes : outcomes[i].success }
Entries(seq) == { seq[i] : i \in DOMAIN seq }

\* C1: when processSummarizeMessages runs twice, one run after the other, every
\* message a run queried has exactly one completed summarization record once the
\* run has returned, and a message is in the summaries of at most one of the runs.
C1_SummarizeTwice ==
    /\ \A i \in DOMAIN emitted : \A m \in Entries(emitted[i].rows) :
          Cardinality(CompletedRecords(m.message_uuid, "summarization")) = 1
    /\ \A m \in Inbound :
          Cardinality({ i \in DOMAIN emitted :
                          \E s \in Entries(emitted[i].summaries) :
                              s.message_uuid = m.message_uuid }) <= 1

\* the stage has returned twice and the first return held a summary
C1_Witness ==
    /\ Len(emitted) >= 2
    /\ emitted[1].summaries # << >>

\* C2: in every state, also of runs whose steps interleave, no key (session,
\* message identity, processing type) has more than one completed record.
C2_AtMostOneCompleted ==
    \A i, j \in DOMAIN sandbox_ai_processing :
        (/\ i # j
         /\ sandbox_ai_processing[i].processing_status = "completed"
         /\ sandbox_ai_processing[j].processing_status = "completed"
         /\ sandbox_ai_processing[i].processing_type = sandbox_ai_processing[j].processing_type)
        => sandbox_ai_processing[i].message_uuid # sandbox_ai_processing[j].message_uuid

\* C3: runs whose steps interleave converge: no inbound message gets more than one
\* outbound reply and no inbound message gets more than one task.
C3_NoDuplicateReplyOrTask ==
    \A m \in Inbound :
        /\ Cardinality(RepliesTo(m.message_uuid)) <= 1
        /\ Cardinality(TasksFrom(m.message_uuid)) <= 1

\* C4 as claimed: over runs that follow one another, retries after a persistence
\* error included, the completion is called at most once per inbound message by
\* the Summarizer.
C4_AtMostOneCall ==
    \A n \in DOMAIN aiCalls : aiCalls[n] <= 1

\* C4 as amended: over runs that follow one another, every call of the completion
\* by the Summarizer either is recorded in the one completed summarization record
\* of its message or belongs to a run that aborted on a persistence error: at most
\* one call per message plus one per aborted run.
C4_OneCallPerRecordOrAbort ==
    \A n \in DOMAIN aiCalls :
        /\ Cardinality(CompletedRecords(Uuid("MSG", n), "summarization")) <= 1
        /\ aiCalls[n] <= Cardinality(CompletedRecords(Uuid("MSG", n), "summarization"))
                           + (MaxFaults - faults)

\* a retry called the completion again for a message whose insert had failed
C4_Witness ==
    \E n \in DOMAIN aiCalls :
        /\ aiCalls[n] = 2
        /\ CompletedRecords(Uuid("MSG", n), "summarization") # {}

\* C5: the Task Generator creates a task for a summary if and only if
\* actionRequired is true and (the category is maintenance or cleaning, or the
\* priority is urgent).
C5_TaskIffGate ==
    \A i \in Returned : \A s \in Entries(outcomes[i].summaries) :
        (TasksFrom(s.message_uuid) # {})
            <=> (/\ s.summary.actionRequired
                 /\ \/ s.summary.category \in {"maintenance", "cleaning"}
                    \/ s.summary.priority = "urgent")

\* C6: a summary with actionRequired false gets no outbound message, no
\* response_generation record, no entry in responses and no task, whatever its
\* category, priority and sentiment.
C6_NoActionNoReplyNoTask ==
    /\ \A m \in Outbound : \A d \in m.sandbox_metadata : d.summary.actionRequired
    /\ \A i \in DOMAIN sandbox_ai_processing :
          sandbox_ai_processing[i].processing_type = "response_generation"
              => sandbox_ai_processing[i].input_data.summary.actionRequired
    /\ \A t \in Tasks : t.metadata.summary.actionRequired
    /\ \A i \in Returned :
          LET actionable == { j \in DOMAIN outcomes[i].summaries :
                                outcomes[i].summaries[j].summary.actionRequired }
          IN /\ Len(outcomes[i].responses) <= Cardinality(actionable)
             /\ Len(outcomes[i].tasks) <= Cardinality(actionable)
    /\ \A i \in Returned : \A s \in Entries(outcomes[i].summaries) :
          ~s.summary.actionRequired =>
              /\ RepliesTo(s.message_uuid) = {}
              /\ TasksFrom(s.message_uuid) = {}

\* a run returned a summary that is urgent in priority and in sentiment and has
\* actionRequired false
C6_Witness ==
    \E i \in Returned : \E s \in Entries(outcomes[i].summaries) :
        /\ ~s.summary.actionRequired
        /\ s.summary.priority = "urgent"
        /\ s.summary.sentiment = "urgent"

\* C7: a summary with category maintenance (and actionRequired true) that went
\* through the Task Generator has a task of type maintenance assigned to
\* "Maintenance Team".
C7_MaintenanceTask ==
    \A i \in Returned : \A s \in Entries(outcomes[i].summaries) :
        (s.summary.category = "maintenance" /\ s.summary.actionRequired) =>
            \E t \in TasksFrom(s.message_uuid) :
                /\ sandbox_tasks[t].task_type = "maintenance"
                /\ sandbox_tasks[t].assignee_name = "Maintenance Team"

WifiSummaries ==
    { sandbox_ai_processing[i].output_data : i \in
        { i \in DOMAIN sandbox_ai_processing :
            /\ sandbox_ai_processing[i].processing_type = "summarization"
            /\ sandbox_ai_processing[i].input_data.message = WifiMessage } }

WifiReplies ==
    { sandbox_ai_processing[i].output_data : i \in
        { i \in DOMAIN sandbox_ai_processing :
            /\ sandbox_ai_processing[i].processing_type = "response_generation"
            /\ \E m \in Outbound :
                 /\ m.message_uuid = sandbox_ai_processing[i].message_uuid
                 /\ \E d \in m.sandbox_metadata : BodyOf(d.generated_from) = WifiMessage } }

\* C8 as claimed: with no completion configured, the message "The wifi is broken
\* and I can't get in, please fix" is classified as check-in, priority high,
\* actionRequired true, and the reply is the fixed check-in message.
C8_WifiIsCheckIn ==
    ~openai =>
        /\ \A s \in WifiSummaries :
              s.category = "check-in" /\ s.priority = "high" /\ s.actionRequired
        /\ \A p \in WifiReplies :
              p.message = "Thank you for your message! The door code is 1234. You can find detailed check-in instructions in your booking confirmation."

\* C8 as amended: with no completion configured, that message is classified as
\* maintenance, priority medium, actionRequired true (it holds none of key,
\* check in, access, and it holds wifi), and the reply is the fixed maintenance
\* acknowledgement with taskType maintenance.
C8_WifiIsMaintenance ==
    ~openai =>
        /\ \A s \in WifiSummaries :
              s.category = "maintenance" /\ s.priority = "medium" /\ s.actionRequired
        /\ \A p \in WifiReplies :
              /\ p.message = "Thank you for your message! I'm sorry to hear about this issue. I'll send someone to take a look at it right away."
              /\ p.taskType = "maintenance"

\* the message was summarized and answered by the fallbacks
C8_Witness ==
    /\ ~openai
    /\ WifiSummaries # {}
    /\ WifiReplies # {}

\* C9: with no completion configured, a full run over the message "The wifi is
\* broken and I can't get in, please fix" creates no task from it and returns no
\* escalation for it.
C9_WifiNoTaskNoEscalation ==
    ~openai =>
        /\ \A t \in Tasks : BodyOf(t.created_from_message_uuid) # WifiMessage
        /\ \A i \in Returned : \A e \in Entries(outcomes[i].escalations) :
              BodyOf(e.message_uuid) # WifiMessage

\* a run over the message returned its result
C9_Witness ==
    /\ ~openai
    /\ \E i \in Returned : \E s \in Entries(outcomes[i].summaries) :
          s.original_message = WifiMessage

\* the documented rule table of the fallback, in priority order
Rules ==
    << [ keywords |-> {"key", "check in", "access"}, category |-> "check-in",
         priority |-> "high", sentiment |-> "neutral" ],
       [ keywords |-> {"wifi", "broken", "fix"}, category |-> "maintenance",
         priority |-> "medium", sentiment |-> "neutral" ],
       [ keywords |-> {"noise", "complaint", "problem"}, category |-> "complaint",
         priority |-> "high", sentiment |-> "negative" ],
       [ keywords |-> {"clean"}, category |-> "cleaning",
         priority |-> "medium", sentiment |-> "neutral" ] >>

\* the keyword occurs in the body, letters compared without regard to case
Present(body, keyword) ==
    \E i \in 1..Len(body) :
        /\ i + Len(keyword) - 1 <= Len(body)
        /\ \A j \in 1..Len(keyword) :
              lowerChar(charAt(body, i + j - 1)) = charAt(keyword, j)

Matching(body) == { r \in DOMAIN Rules : \E w \in Rules[r].keywords : Present(body, w) }

\* C10: the Summarizer fallback is the rule table evaluated in priority order on
\* case-insensitive keyword presence: the first rule with a keyword in the body
\* gives category, priority and sentiment, no rule gives general, and
\* actionRequired is true exactly when a rule matched.
C10_RuleTable ==
    Len(ret) >= 1 =>
        IF Matching(arg) = {}
        THEN ret[1].category = "general" /\ ~ret[1].actionRequired
        ELSE LET first == CHOOSE r \in Matching(arg) : \A q \in Matching(arg) : r <= q
             IN /\ ret[1].category = Rules[first].category
                /\ ret[1].priority = Rules[first].priority
                /\ ret[1].sentiment = Rules[first].sentiment
                /\ ret[1].actionRequired

\* a body in capitals that matches the first and the second rule was classified
C10_Witness ==
    /\ Len(ret) >= 1
    /\ Present(arg, "key") /\ ~includes(arg, "key")
    /\ Present(arg, "wifi")

SummaryFields ==
    { "language", "sentiment", "tone", "actionRequired", "actionTitle",
      "category", "priority", "keyInformation", "suggestedResponse" }

ResponseFields == { "message", "requiresFollowUp", "escalationNeeded", "taskType" }

\* C11: for every message body, the empty one and one without any keyword
\* included, the fallback classifier returns a summary with all nine fields
\* populated, and for every such summary the fallback responder returns a reply
\* with all four fields populated; neither ever fails to return (the two
\* operators are defined on every body of Bodies and every summary reached).
C11_FallbacksPopulated ==
    /\ Len(ret) >= 1 =>
          LET s == ret[1] IN
          /\ DOMAIN s = SummaryFields
          /\ s.language # ""
          /\ s.sentiment \in { "positive", "neutral", "negative", "urgent" }
          /\ s.tone \in { "friendly", "formal", "frustrated", "confused" }
          /\ s.actionRequired \in BOOLEAN
          /\ s.actionTitle # ""
          /\ s.category \in { "booking", "maintenance", "check-in", "check-out", "amenities",
                               "complaint", "cleaning", "general" }
          /\ s.priority \in { "low", "medium", "high", "urgent" }
          /\ Len(s.keyInformation) >= 1
          /\ \A i \in DOMAIN s.keyInformation : s.keyInformation[i] # ""
          /\ s.suggestedResponse # ""
    /\ Len(ret) = 2 =>
          LET a == ret[2] IN
          /\ DOMAIN a = ResponseFields
          /\ Len(a.message) > Len(ThankYou)
          /\ a.requiresFollowUp \in BOOLEAN
          /\ a.escalationNeeded \in BOOLEAN
          /\ a.taskType \in { "cleaning", "maintenance", "none" }

\* the empty body and a body without any keyword were classified and answered
C11_Witness ==
    /\ arg \in { "", "Hello, what a lovely place" }
    /\ Len(ret) = 2
    /\ ret[1].category = "general"
    /\ ret[2].taskType = "none"

\* C19: when the completion service is not configured, when the call throws and
\* when its text does not parse, generateMessageSummary and generateAiResponse
\* return exactly what getMockSummary and getMockResponse return for the same
\* input, and what they return is a result, never the failure.
C19_FallbackOnFailure ==
    /\ (Len(ret) >= 1 /\ (~openai \/ arg.summaryCompletion.kind # "JSON")) =>
          ret[1].summary = getMockSummary(arg.message.message_body)
    /\ (Len(ret) = 2 /\ (~openai \/ arg.responseCompletion.kind # "JSON")) =>
          ret[2] = getMockResponse(ret[1].summary)
    /\ \A i \in DOMAIN ret : "thrown" \notin DOMAIN ret[i]

\* the service is configured, the summary call threw and the text of the
\* response call did not parse
C19_Witness ==
    /\ openai
    /\ arg.summaryCompletion.kind = "throws"
    /\ arg.responseCompletion.kind = "not JSON"
    /\ Len(ret) = 2

\* C20: a completion that parses as JSON and does not conform to the requested
\* schema is replaced by the fallback result: every stored summary has the nine
\* fields of the schema, and no call of runFullAutomation ends with an error
\* other than one of the store.
C20_MalformedRecovered ==
    /\ \A i \in DOMAIN sandbox_ai_processing :
          sandbox_ai_processing[i].processing_type = "summarization"
              => DOMAIN sandbox_ai_processing[i].output_data = SummaryFields
    /\ \A i \in DOMAIN outcomes :
          ~outcomes[i].success =>
              outcomes[i].error \in { "insert sandbox_ai_processing", "insert message_log",
                                      "insert sandbox_tasks" }

TimestampOf(uuid) == (CHOOSE m \in message_log : m.message_uuid = uuid).timestamp

Ascending(uuids) ==
    \A i, j \in DOMAIN uuids : i < j => TimestampOf(uuids[i]) <= TimestampOf(uuids[j])

PositionIn(summaries, uuid) == CHOOSE i \in DOMAIN summaries : summaries[i].message_uuid = uuid

\* the inbound message an entry of responses answers, a task was created from
ResponseSource(response) ==
    (CHOOSE d \in (CHOOSE m \in Outbound : m.message_uuid = response.message_uuid).sandbox_metadata :
        TRUE).generated_from
TaskSource(task) ==
    (CHOOSE t \in Tasks : t.task_uuid = task.task_uuid).created_from_message_uuid

InOrderOf(summaries, sources) ==
    \A i, j \in DOMAIN sources :
        i < j => PositionIn(summaries, sources[i]) < PositionIn(summaries, sources[j])

SummarizationRecords ==
    SelectSeq(sandbox_ai_processing, LAMBDA p : p.processing_type = "summarization")

\* C12: within one call the unprocessed inbound messages are summarized in
\* ascending order of timestamp: the rows, the summarization records as they
\* were inserted and the summaries list are in that order, and the responses,
\* tasks and escalations follow the order of the summaries list.
C12_AscendingOrder ==
    /\ \A r \in Runs :
          /\ Ascending([ i \in DOMAIN run[r].rows |-> run[r].rows[i].message_uuid ])
          /\ \A i \in DOMAIN run[r].summaries :
                run[r].summaries[i].message_uuid = run[r].rows[i].message_uuid
          /\ InOrderOf(run[r].summaries,
                       [ i \in DOMAIN run[r].responses |-> ResponseSource(run[r].responses[i]) ])
          /\ InOrderOf(run[r].summaries,
                       [ i \in DOMAIN run[r].tasks |-> TaskSource(run[r].tasks[i]) ])
    /\ Ascending([ i \in DOMAIN SummarizationRecords |-> SummarizationRecords[i].message_uuid ])
    /\ \A o \in Returned :
          LET summaries == outcomes[o].summaries IN
          /\ Ascending([ i \in DOMAIN summaries |-> summaries[i].message_uuid ])
          /\ InOrderOf(summaries, [ i \in DOMAIN outcomes[o].responses |->
                                      ResponseSource(outcomes[o].responses[i]) ])
          /\ InOrderOf(summaries, [ i \in DOMAIN outcomes[o].tasks |->
                                      TaskSource(outcomes[o].tasks[i]) ])
          /\ InOrderOf(summaries, [ i \in DOMAIN outcomes[o].escalations |->
                                      outcomes[o].escalations[i].message_uuid ])

\* a call returned the summaries of all the messages of a log whose timestamps
\* are distinct and run against the identities, with several replies, tasks and
\* escalations
C12_Witness ==
    \E o \in Returned :
        LET summaries == outcomes[o].summaries IN
        /\ Len(summaries) = MaxOrder
        /\ \A i, j \in DOMAIN summaries :
              i < j => /\ TimestampOf(summaries[i].message_uuid) < TimestampOf(summaries[j].message_uuid)
                       /\ summaries[i].message_uuid.n > summaries[j].message_uuid.n
        /\ Len(outcomes[o].responses) >= 2
        /\ Len(outcomes[o].tasks) >= 2
        /\ Len(outcomes[o].escalations) >= 2

Prior == { m \in message_log : m.sandbox_session_id = arg.sandbox_session_id
                                /\ m.timestamp < arg.timestamp }

Triple(m) == [ text |-> m.message_body, type |-> m.message_type, timestamp |-> m.timestamp ]

\* C13: the history of a message holds only messages of its session that are
\* strictly earlier by timestamp, each once, at most HistoryLimit of them, and
\* when more exist those it holds are the most recent ones.
C13_HistoryBounded ==
    ret # << >> =>
        LET h == ret[1].conversationHistory IN
        /\ \A i \in DOMAIN h : \E m \in Prior : h[i] = Triple(m)
        /\ \A i, j \in DOMAIN h : i # j => h[i] # h[j]
        /\ Len(h) = IF Cardinality(Prior) < HistoryLimit THEN Cardinality(Prior) ELSE HistoryLimit
        /\ \A m \in Prior :
              (\A i \in DOMAIN h : h[i] # Triple(m))
                  => \A i \in DOMAIN h : m.timestamp <= h[i].timestamp

\* the message has more than HistoryLimit earlier messages in its session, and
\* the log holds a row of the other session and a row of the same timestamp
C13_Witness ==
    /\ ret # << >>
    /\ Cardinality(Prior) > HistoryLimit
    /\ Len(ret[1].conversationHistory) = HistoryLimit
    /\ \E m \in message_log : m.sandbox_session_id # SessionId /\ m.timestamp < arg.timestamp
    /\ \E m \in message_log : m.sandbox_session_id = SessionId /\ m # arg
                                /\ m.timestamp = arg.timestamp

\* C14: the history of the context is in ascending order of timestamp: of two
\* earlier messages the one sent first comes first.
C14_HistoryChronological ==
    ret # << >> =>
        LET h == ret[1].conversationHistory IN
        \A i, j \in DOMAIN h : i < j => h[i].timestamp <= h[j].timestamp

RemindersFor(followUps, task) ==
    { j \in DOMAIN followUps : followUps[j].task_uuid = task.task_uuid }

\* C15: an evaluation holds exactly one reminder for every task that is pending
\* and was created strictly more than 2 hours before, and none for any other
\* task: none for a task that is 1 hour old, none for a task that is exactly 2
\* hours old, none for a task in progress whatever its age.
C15_ReminderIffPendingAndOld ==
    \A e \in DOMAIN ret :
        /\ \A j \in DOMAIN ret[e].followUps : ret[e].followUps[j].type = "reminder"
        /\ \A i \in DOMAIN sandbox_tasks :
              Cardinality(RemindersFor(ret[e].followUps, sandbox_tasks[i])) =
                  IF sandbox_tasks[i].status = "pending"
                        /\ ret[e].at - sandbox_tasks[i].created_at > 2
                  THEN 1 ELSE 0

\* a pending task and a task in progress of the same age were evaluated when 1
\* hour old and again when 3 hours old: the second evaluation holds one reminder,
\* for the pending task
C15_Witness ==
    /\ Len(ret) = 2
    /\ \E i, j \in DOMAIN sandbox_tasks :
          /\ sandbox_tasks[i].status = "pending"
          /\ sandbox_tasks[j].status = "in-progress"
          /\ sandbox_tasks[i].created_at = sandbox_tasks[j].created_at
          /\ ret[1].at - sandbox_tasks[i].created_at = 1
          /\ ret[2].at - sandbox_tasks[i].created_at = 3
          /\ ret[1].followUps = << >>
          /\ Len(ret[2].followUps) = 1
          /\ ret[2].followUps[1].task_uuid = sandbox_tasks[i].task_uuid

\* C16: the escalations hold exactly one entry, carrying the summary, for every
\* summary whose priority is urgent or whose sentiment is urgent (a summary of
\* urgent sentiment and low priority included) and none for any other summary,
\* in the order of the summaries.
C16_EscalationIffUrgent ==
    ret # << >> =>
        LET escalations == ret[1] IN
        /\ \A i \in DOMAIN arg :
              Cardinality({ j \in DOMAIN escalations :
                              escalations[j].message_uuid = arg[i].message_uuid }) =
                  IF arg[i].summary.priority = "urgent" \/ arg[i].summary.sentiment = "urgent"
                  THEN 1 ELSE 0
        /\ \A j \in DOMAIN escalations :
              \E i \in DOMAIN arg : /\ escalations[j].message_uuid = arg[i].message_uuid
                                    /\ escalations[j].summary = arg[i].summary
        /\ \A j, k \in DOMAIN escalations :
              j < k => escalations[j].message_uuid.n < escalations[k].message_uuid.n

\* of three summaries the first is of urgent sentiment and low priority, the
\* second is not urgent and the third is of urgent priority: two escalations
C16_Witness ==
    /\ Len(arg) = 3
    /\ arg[1].summary.sentiment = "urgent" /\ arg[1].summary.priority = "low"
    /\ arg[2].summary.sentiment = "neutral" /\ arg[2].summary.priority = "high"
    /\ arg[3].summary.sentiment = "neutral" /\ arg[3].summary.priority = "urgent"
    /\ ret # << >>
    /\ Len(ret[1]) = 2
    /\ ret[1][1].message_uuid = arg[1].message_uuid
    /\ ret[1][2].message_uuid = arg[3].message_uuid

StageOrder ==
    { << "idle", "summarize" >>, << "summarize", "respond" >>, << "respond", "tasks" >>,
      << "tasks", "escalations" >>, << "escalations", "idle" >> }

Stages == { "summarize", "respond", "tasks", "escalations" }

\* C17: a call goes through its stages in the order Summarizer, Responder, Task
\* Generator, Follow-up Evaluator, Escalation Detector; a stage starts when the
\* one before it has handled its whole input; the list the Summarizer returned
\* is, unchanged, the input of the Responder, of the Task Generator and of the
\* Escalation Detector, and is the summaries of the result.
C17_StagesInOrder ==
    [][ \A r \in Runs :
          /\ run'[r].pc # run[r].pc =>
                \/ << run[r].pc, run'[r].pc >> \in StageOrder
                \/ /\ run[r].pc \in Stages
                   /\ run'[r].pc = "idle"
                   /\ Len(outcomes') = Len(outcomes) + 1
                   /\ ~outcomes'[Len(outcomes')].success
          /\ (run[r].pc = "summarize" /\ run'[r].pc = "respond") =>
                /\ Len(run[r].summaries) = Len(run[r].rows)
                /\ run'[r].responses = << >> /\ run'[r].tasks = << >>
          /\ (run[r].pc = "respond" /\ run'[r].pc = "tasks") =>
                /\ run[r].k > Len(run[r].summaries)
                /\ run'[r].tasks = << >>
          /\ (run[r].pc = "tasks" /\ run'[r].pc = "escalations") =>
                /\ run[r].k > Len(run[r].summaries)
                /\ run'[r].followUps = evaluateTaskStatus
          /\ (run[r].pc \in { "respond", "tasks", "escalations" } /\ run'[r].pc # "idle") =>
                run'[r].summaries = run[r].summaries
          /\ (run[r].pc = "escalations" /\ run'[r].pc = "idle") =>
                LET result == outcomes'[Len(outcomes')] IN
                /\ Len(outcomes') = Len(outcomes) + 1
                /\ result.success
                /\ result.summaries = run[r].summaries
                /\ result.summaries = emitted[Len(emitted)].summaries
                /\ result.escalations = processHostEscalations(run[r].summaries)
      ]_vars

\* a call that summarized a message, answered it and created a task from it
\* has reached its last stage
C17_Witness ==
    \E r \in Runs :
        /\ run[r].pc = "escalations"
        /\ run[r].summaries # << >>
        /\ run[r].responses # << >>
        /\ run[r].tasks # << >>

ResultFields == { "summaries", "responses", "tasks", "followUps", "escalations", "success" }

\* C18: every call of runFullAutomation that has ended ended once, either with
\* a result that holds the five lists and success = true or with an error and
\* nothing else; a call that ended with an error runs no further stage.
C18_ResultOrError ==
    /\ \A i \in DOMAIN outcomes :
          \/ outcomes[i].success /\ DOMAIN outcomes[i] = ResultFields
          \/ ~outcomes[i].success /\ DOMAIN outcomes[i] = { "success", "error" }
    /\ Len(outcomes) + Cardinality({ r \in Runs : ~Idle(r) }) = started

\* a call ended with an error after its summary record and its reply were
\* written, and another call returned a result
C18_Witness ==
    /\ \E i \in DOMAIN outcomes : outcomes[i].success
    /\ \E i \in DOMAIN outcomes : ~outcomes[i].success
    /\ sandbox_ai_processing # << >>
    /\ Outbound # {}

Summarized(uuid) == CompletedRecords(uuid, "summarization") # {}

\* C21: a summary is pushed only with its completed summarization record: every
\* summary a call holds, returned from the stage or returned in its result has
\* its record; when the insert of the record throws for a message, no record is
\* written, the call ends with the error (so with no summaries list), and the
\* message is among the rows of the query of every later call.
C21_InsertAndPushTogether ==
    /\ [] /\ \A r \in Runs : \A s \in Entries(run[r].summaries) : Summarized(s.message_uuid)
          /\ \A i \in DOMAIN emitted : \A s \in Entries(emitted[i].summaries) :
                Summarized(s.message_uuid)
          /\ \A i \in Returned : \A s \in Entries(outcomes[i].summaries) :
                Summarized(s.message_uuid)
    /\ [][ \A r \in Runs :
             (run[r].pc = "summarize" /\ run'[r].pc = "idle") =>
                 LET message == run[r].rows[run[r].k] IN
                 /\ sandbox_ai_processing' = sandbox_ai_processing
                 /\ Len(outcomes') = Len(outcomes) + 1
                 /\ DOMAIN outcomes'[Len(outcomes')] = { "success", "error" }
                 /\ ~Summarized(message.message_uuid) =>
                       \A rows \in messagesQuery' :
                           \E i \in DOMAIN rows : rows[i].message_uuid = message.message_uuid
         ]_vars

\* the insert of the record of a message threw in one call, and a later call
\* returned the summary of the message
C21_Witness ==
    \E i, j \in DOMAIN outcomes :
        /\ i < j
        /\ ~outcomes[i].success
        /\ outcomes[i].error = "insert sandbox_ai_processing"
        /\ outcomes[j].success
        /\ outcomes[j].summaries # << >>
        /\ Outbound = {}

\* the summaries with actionRequired true that the Responder was given and
\* that have no reply, counted once the Responder is no longer running
Unanswered ==
    { s \in UNION { Entries(emitted[i].summaries) : i \in DOMAIN emitted } :
        s.summary.actionRequired /\ RepliesTo(s.message_uuid) = {} }

\* C22: a failure of the Responder on one summary does not stop it from
\* handling the summaries that follow: once the Responder has ended, the
\* summaries with actionRequired true that have no reply are at most as many as
\* the store writes that threw.
C22_ResponderIndependent ==
    (\A r \in Runs : run[r].pc # "respond") => Cardinality(Unanswered) <= MaxFaults - faults

Persisted(entry) ==
    /\ \E m \in Outbound : /\ m.message_uuid = entry.message_uuid
                           /\ m.message_body = entry.response
                           /\ m.from_number = "System"
    /\ \E i \in CompletedRecords(entry.message_uuid, "response_generation") :
          sandbox_ai_processing[i].output_data = entry.metadata

Actionable(summaries) == { j \in DOMAIN summaries : summaries[j].summary.actionRequired }

\* C23: for every entry of the responses of a call the store holds the outbound
\* message of that identity, sent by the system with the reply text as body,
\* and a completed response_generation record of that identity; the responses
\* of a result are as many as its summaries with actionRequired true, and no
\* two entries share an identity.
C23_ReplyPersistedTwice ==
    /\ \A r \in Runs : \A e \in Entries(run[r].responses) : Persisted(e)
    /\ \A i \in Returned :
          LET responses == outcomes[i].responses IN
          /\ \A e \in Entries(responses) : Persisted(e)
          /\ \A j, k \in DOMAIN responses :
                j # k => responses[j].message_uuid # responses[k].message_uuid
          /\ Len(responses) = Cardinality(Actionable(outcomes[i].summaries))

\* a call returned two replies, one from the completion and one from the fallback
C23_Witness ==
    \E i \in Returned :
        /\ Len(outcomes[i].responses) = 2
        /\ outcomes[i].responses[1].response # outcomes[i].responses[2].response
        /\ Len(outcomes[i].summaries) > 2

\* C24: the recipient of every outbound reply is the sender of the inbound
\* message the reply was generated from.
C24_ReplyToSender ==
    \A m \in Outbound : \A d \in m.sandbox_metadata :
        \A q \in Inbound :
            q.message_uuid = d.generated_from => m.to_number = q.from_number

\* C25: a call holds one connection while one of its stages that touch the
\* store runs, never more than one, and none when it is not running: every
\* stage has released its connection when it is left, by return or by error.
C25_ConnectionsReleased ==
    \A r \in Runs :
        /\ run[r].conn \in { 0, 1 }
        /\ run[r].pc \in { "summarize", "respond", "tasks" } => run[r].conn = 1
        /\ run[r].pc \in { "idle", "escalations" } => run[r].conn = 0

\* calls have ended both ways, one of them with the TypeError of
\* determineTaskDetails, and no call is running
C25_Witness ==
    /\ \E i \in DOMAIN outcomes : outcomes[i].success
    /\ \E i \in DOMAIN outcomes : ~outcomes[i].success /\ outcomes[i].error = "TypeError"
    /\ \A r \in Runs : Idle(r)

\* C26: no step of a call changes or removes a row of sandbox_tasks (rows are
\* only appended), and the step that runs evaluateTaskStatus leaves the whole
\* store as it was: the follow-ups are in the result of the call and nowhere
\* in the store.
C26_TasksKeptFollowUpsNotStored ==
    [][ /\ Len(sandbox_tasks') >= Len(sandbox_tasks)
        /\ \A i \in DOMAIN sandbox_tasks : sandbox_tasks'[i] = sandbox_tasks[i]
        /\ \A r \in Runs :
              (run[r].pc = "tasks" /\ run'[r].pc = "escalations") =>
                  /\ storeVars' = storeVars
                  /\ run'[r].followUps = evaluateTaskStatus
      ]_vars

\* a call that created a task returned reminders for tasks of earlier calls;
\* the table holds a task in progress and the tasks of earlier calls are as
\* they were
C26_Witness ==
    \E i \in Returned :
        /\ outcomes[i].followUps # << >>
        /\ outcomes[i].tasks # << >>
        /\ \E t \in Tasks : t.status = "in-progress" /\ now - t.created_at > FollowUpHours
        /\ \E t \in Tasks : t.status = "pending" /\ now - t.created_at > FollowUpHours

\* C27: with calls that do not overlap, no two tasks have the same originating
\* message identity.
C27_OneTaskPerMessage ==
    \A i, j \in DOMAIN sandbox_tasks :
        i # j => sandbox_tasks[i].created_from_message_uuid
                    # sandbox_tasks[j].created_from_message_uuid

\* a call created a task from a message and a later call returned its result
C27_Witness ==
    /\ \E m \in Inbound : TasksFrom(m.message_uuid) # {}
    /\ \E i, j \in Returned : i < j /\ outcomes[i].tasks # << >>

ExpectedReply(category) ==
    CASE category = "check-in" ->
           [ message |-> "Thank you for your message! The door code is 1234. You can find detailed check-in instructions in your booking confirmation.",
             taskType |-> "none", escalationNeeded |-> FALSE ]
      [] category = "maintenance" ->
           [ message |-> "Thank you for your message! I'm sorry to hear about this issue. I'll send someone to take a look at it right away.",
             taskType |-> "maintenance", escalationNeeded |-> FALSE ]
      [] category = "cleaning" ->
           [ message |-> "Thank you for your message! I'll arrange for housekeeping to address this immediately.",
             taskType |-> "cleaning", escalationNeeded |-> FALSE ]
      [] category = "complaint" ->
           [ message |-> "Thank you for your message! I sincerely apologize for this inconvenience. I'm taking immediate action to resolve this issue.",
             taskType |-> "none", escalationNeeded |-> TRUE ]
      [] OTHER ->
           [ message |-> "Thank you for your message! Is there anything specific I can help you with during your stay?",
             taskType |-> "none", escalationNeeded |-> FALSE ]

\* C28: the reply of the fallback is given by the category of the summary
\* (check-in: access instructions; maintenance and cleaning: acknowledgement and
\* the task type of the category; complaint: apology and escalationNeeded; any
\* other category: the open-ended acknowledgement), escalationNeeded is true for
\* complaint only, and requiresFollowUp is true exactly for priority high.
C28_FallbackReplyTable ==
    ret # << >> =>
        LET reply == ret[1]
            expected == ExpectedReply(arg.summary.category)
        IN /\ reply.message = expected.message
           /\ reply.taskType = expected.taskType
           /\ reply.escalationNeeded = expected.escalationNeeded
           /\ reply.escalationNeeded <=> arg.summary.category = "complaint"
           /\ reply.requiresFollowUp <=> arg.summary.priority = "high"

\* the fallback answered a complaint of priority urgent
C28_Witness ==
    /\ ret # << >>
    /\ arg.summary.category = "complaint"
    /\ arg.summary.priority = "urgent"
    /\ ret[1].escalationNeeded
    /\ ~ret[1].requiresFollowUp

ExpectedAssignee(category) ==
    CASE category = "maintenance" -> << "maintenance", "Maintenance Team" >>
      [] category = "cleaning" -> << "cleaning", "Cleaning Team" >>
      [] category = "complaint" -> << "inspection", "Property Manager" >>
      [] OTHER -> << "general", "Support Team" >>

\* C29: every task createStaffTasks inserts has status pending, the priority
\* and the message identity of its summary, and the type and assignee of the
\* category of its summary: maintenance, cleaning and complaint have their own,
\* every other category, one outside the list of the prompt included, has
\* general and Support Team.
C29_TaskFromLookup ==
    \A t \in Tasks :
        /\ t.status = "pending"
        /\ t.priority = arg.summary.priority
        /\ t.created_from_message_uuid = arg.message_uuid
        /\ << t.task_type, t.assignee_name >> = ExpectedAssignee(arg.summary.category)
        /\ t.metadata.summary = arg.summary

\* tasks were inserted for a complaint and for a category outside the list
C29_Witness ==
    /\ arg.summary.category \in { "complaint", "parking" }
    /\ \E t \in Tasks : t.task_type \in { "inspection", "general" }

\* the block with every additional field that is not the column of a listed named field
ListedBlock(propertyData) ==
    LET name == OrElse(propertyData.property_title, propertyData.name)
        viaName == propertyData.property_title \in { Null, "" }
        line(label, value) == IF HasText(value) THEN << "- " \o label \o ": " \o value >> ELSE << >>
        extra(key, label) ==
            IF HasText(propertyData[key]) THEN << "- " \o label \o ": " \o propertyData[key] >> ELSE << >>
    IN << "Property Information:" >>
         \o line("Property Name", name)
         \o line("WiFi Password", propertyData.wifi_password)
         \o (IF viaName THEN << >> ELSE extra("name", "Name"))
         \o extra("door_code", "Door Code")

\* C30: the block lists the named fields first and then every additional field
\* outside the exclusion list that was not listed as a named field, leaving out
\* only blank values and the text null, also when the value of an additional
\* field equals that of a named field; without a property identity the block
\* is the line "Property Information: Not available".
C30_AdditionalFieldsListed ==
    ret # << >> =>
        ret[1] = IF arg.id = Null
                 THEN "Property Information: Not available"
                 ELSE join(ListedBlock(arg), "\n")

\* C31: no step of a call changes or removes a row of sandbox_ai_processing
\* (rows are only appended, so the output of a completed summarization record
\* stays as it was written) and no step changes or removes a row of
\* message_log: a new row has an identity no earlier row has.
C31_LedgerAndLogAppendOnly ==
    [][ /\ Len(sandbox_ai_processing') >= Len(sandbox_ai_processing)
        /\ \A i \in DOMAIN sandbox_ai_processing :
              sandbox_ai_processing'[i] = sandbox_ai_processing[i]
        /\ message_log \subseteq message_log'
        /\ \A m \in message_log' \ message_log : \A q \in message_log :
              q.message_uuid # m.message_uuid
      ]_vars

\* the first row of the ledger is a completed summarization record; the
\* Responder has answered its message and a later call has returned
C31_Witness ==
    /\ Len(sandbox_ai_processing) >= 2
    /\ sandbox_ai_processing[1].processing_type = "summarization"
    /\ sandbox_ai_processing[1].processing_status = "completed"
    /\ RepliesTo(sandbox_ai_processing[1].message_uuid) # {}
    /\ \E i, j \in Returned : i < j /\ outcomes[i].summaries # << >>

Empty(value) == value \in { Null, Undefined }

Raised == ret # << >> /\ "thrown" \in DOMAIN ret[1]

NoPayload == arg.scenario_data \in { << >>, << EmptyObject >> }

NoPropertyReference == arg.scenario_data = << >> \/ "property_id" \notin DOMAIN arg.scenario_data[1]

NoProperty ==
    \/ NoPropertyReference
    \/ arg.scenario_data[1].property_id \notin DOMAIN Properties

NoGuestName ==
    \/ arg.scenario_data = << >>
    \/ "guest_name" \notin DOMAIN arg.scenario_data[1]
    \/ arg.scenario_data[1].guest_name = ""

ArgHistory == { m \in message_log : m.sandbox_session_id = SessionId /\ m.timestamp < arg.timestamp }

\* C32 as stated: buildMessageContext never raises; when the session has no
\* scenario payload or its property cannot be resolved, every property field
\* of the context is empty; a missing guest name is replaced by "Guest"; the
\* history holds the earlier messages; and the store is left as it was.
C32_ContextDefaults ==
    /\ [] (ret # << >> =>
             /\ ~Raised
             /\ (NoPayload \/ NoProperty) =>
                   \A field \in DOMAIN ret[1].property : Empty(ret[1].property[field])
             /\ NoGuestName => ret[1].guest.name = "Guest"
             /\ { ret[1].conversationHistory[i] : i \in DOMAIN ret[1].conversationHistory }
                   = { Triple(m) : m \in ArgHistory })
    /\ [][storeVars' = storeVars]_vars

\* C32, amended: buildMessageContext never raises; when the property of the
\* session cannot be resolved, the name, address and check-in and check-out
\* times of the property are empty, and the identity of the property is what
\* the scenario payload holds as property_id: empty when the payload is absent
\* or has no property reference, the unresolved reference otherwise; a missing
\* guest name is replaced by "Guest"; the history holds the earlier messages;
\* and the store is left as it was.
C32_ContextDefaultsIdKept ==
    /\ [] (ret # << >> =>
             /\ ~Raised
             /\ NoProperty =>
                   \A field \in { "name", "address", "checkIn", "checkOut" } :
                       Empty(ret[1].property[field])
             /\ ret[1].property.id =
                   IF NoPropertyReference THEN Undefined ELSE arg.scenario_data[1].property_id
             /\ NoGuestName => ret[1].guest.name = "Guest"
             /\ { ret[1].conversationHistory[i] : i \in DOMAIN ret[1].conversationHistory }
                   = { Triple(m) : m \in ArgHistory })
    /\ [][storeVars' = storeVars]_vars

\* the context was built for a message of a session whose payload refers to a
\* property that does not exist and names no guest, after earlier messages
C32_Witness ==
    /\ ret # << >>
    /\ ~Raised
    /\ ~NoPropertyReference
    /\ NoProperty
    /\ NoGuestName
    /\ ret[1].property.id = "99"
    /\ ret[1].property.name = Null
    /\ ret[1].guest.name = "Guest"
    /\ Len(ret[1].conversationHistory) >= 2

\* the message is among the rows a call in progress took from messagesQuery
InRowsOfACall(uuid) ==
    \E r \in Runs : \E row \in Entries(run[r].rows) : row.message_uuid = uuid

\* the results that hold a summary or an escalation of the message
ResultsFor(uuid) ==
    { i \in Returned :
        \/ \E s \in Entries(outcomes[i].summaries) : s.message_uuid = uuid
        \/ \E e \in Entries(outcomes[i].escalations) : e.message_uuid = uuid }

\* C33: a message that has a completed summarization record and is not among
\* the rows of a call in progress is never among the rows of a call again, and
\* from then on no step gives it a reply or a task, and no result holds a
\* summary or an escalation of it: a call that starts once the record is
\* written does nothing for the message, also when the call that wrote the
\* record ended with an error before the message had its reply or its task.
C33_SummarizedNeverHandledAgain ==
    [][ \A m \in Inbound :
          (Summarized(m.message_uuid) /\ ~InRowsOfACall(m.message_uuid)) =>
              /\ ~InRowsOfACall(m.message_uuid)'
              /\ RepliesTo(m.message_uuid)' = RepliesTo(m.message_uuid)
              /\ TasksFrom(m.message_uuid)' = TasksFrom(m.message_uuid)
              /\ ResultsFor(m.message_uuid)' = ResultsFor(m.message_uuid)
      ]_vars

\* a call wrote the record of a message that asks for action and ended with
\* the error of a write of the Responder; a later call returned its result,
\* and the message has no reply and no task
C33_Witness ==
    \E m \in Inbound :
        /\ \E i \in CompletedRecords(m.message_uuid, "summarization") :
              sandbox_ai_processing[i].output_data.actionRequired
        /\ RepliesTo(m.message_uuid) = {}
        /\ TasksFrom(m.message_uuid) = {}
        /\ \E i, j \in DOMAIN outcomes :
              /\ i < j
              /\ ~outcomes[i].success
              /\ outcomes[i].error = "insert message_log"
              /\ outcomes[j].success
              /\ outcomes[j].summaries = << >>
              /\ outcomes[j].escalations = << >>

\* C34: with no completion configured, every summary has priority medium or
\* high and sentiment neutral or negative, no call creates a task and no
\* result holds a task or an escalation, whatever the messages say.
C34_FallbackNoTaskNoEscalation ==
    ~openai =>
        /\ \A i \in DOMAIN sandbox_ai_processing :
              sandbox_ai_processing[i].processing_type = "summarization" =>
                  /\ sandbox_ai_processing[i].output_data.priority \in { "medium", "high" }
                  /\ sandbox_ai_processing[i].output_data.sentiment \in { "neutral", "negative" }
        /\ sandbox_tasks = << >>
        /\ \A r \in Runs : run[r].tasks = << >>
        /\ \A i \in Returned : outcomes[i].tasks = << >> /\ outcomes[i].escalations = << >>

\* a call returned the summaries of a maintenance request and of a complaint,
\* with their replies
C34_Witness ==
    /\ ~openai
    /\ \E i \in Returned :
          /\ \E s \in Entries(outcomes[i].summaries) : s.summary.category = "maintenance"
          /\ \E s \in Entries(outcomes[i].summaries) :
                s.summary.category = "complaint" /\ s.summary.sentiment = "negative"
          /\ Len(outcomes[i].responses) = 2

\* C35: when no call is in progress, every outbound message of the store has
\* exactly one completed response_generation record of its identity, and every
\* such record has its outbound message.
C35_RepliesAndRecordsPaired ==
    (\A r \in Runs : Idle(r)) =>
        /\ \A m \in Outbound :
              Cardinality(CompletedRecords(m.message_uuid, "response_generation")) = 1
        /\ \A i \in DOMAIN sandbox_ai_processing :
              sandbox_ai_processing[i].processing_type = "response_generation" =>
                  \E m \in Outbound : m.message_uuid = sandbox_ai_processing[i].message_uuid

EmptyResult(outcome) ==
    /\ outcome.summaries = << >>
    /\ outcome.responses = << >>
    /\ outcome.tasks = << >>
    /\ outcome.escalations = << >>

\* C36: in a session whose inbound messages are all there when the first call
\* runs its query, once a call has returned its result every inbound message
\* has a completed summarization record, and every call that returns after it
\* returns no summaries, no responses, no tasks and no escalations.
C36_SuccessfulRunLeavesNothing ==
    \A i \in Returned :
        /\ \A m \in Inbound : Summarized(m.message_uuid)
        /\ \A j \in Returned : j > i => EmptyResult(outcomes[j])

\* a call returned a summary for each of the messages, with replies, and the
\* call after it returned an empty result
C36_Witness ==
    \E i, j \in Returned :
        /\ j = i + 1
        /\ Len(outcomes[i].summaries) = Cardinality(Inbound)
        /\ Cardinality(Inbound) > 1
        /\ outcomes[i].responses # << >>
        /\ EmptyResult(outcomes[j])

RemindedIn(followUps) == { followUps[i].task_uuid : i \in DOMAIN followUps }

\* C37: the step that runs evaluateTaskStatus returns one reminder for every
\* task that is pending and older than FollowUpHours at that time, whether or
\* not an earlier result held a reminder of the task, and none for a task that
\* is no longer pending; and no result holds a reminder of a task the same call
\* created.
C37_RemindedEveryRun ==
    /\ [] (\A i \in Returned :
             \A t \in Entries(outcomes[i].tasks) :
                 t.task_uuid \notin RemindedIn(outcomes[i].followUps))
    /\ [][ \A r \in Runs :
             (run[r].pc = "tasks" /\ run'[r].pc = "escalations") =>
                 /\ \A t \in Tasks :
                       (t.status = "pending" /\ now - t.created_at > FollowUpHours)
                           => Cardinality(RemindersFor(run'[r].followUps, t)) = 1
                 /\ \A t \in Tasks :
                       t.status # "pending" => t.task_uuid \notin RemindedIn(run'[r].followUps)
                 /\ \A t \in Entries(run[r].tasks) :
                       t.task_uuid \notin RemindedIn(run'[r].followUps)
         ]_vars

\* two results in a row hold a reminder of the same task; the later of them
\* holds no reminder of another task of the first, whose status has changed,
\* nor of the task its own call created two hours before its evaluation
C37_Witness ==
    \E i, j \in Returned :
        /\ j > i
        /\ \E u \in RemindedIn(outcomes[i].followUps) : u \in RemindedIn(outcomes[j].followUps)
        /\ \E u \in RemindedIn(outcomes[i].followUps) : u \notin RemindedIn(outcomes[j].followUps)
        /\ \E i2 \in Returned : \E t \in Tasks :
              /\ \E e \in Entries(outcomes[i2].tasks) : e.task_uuid = t.task_uuid
              /\ now - t.created_at = FollowUpHours

EscalationsOf(outcome, uuid) ==
    { j \in DOMAIN outcome.escalations : outcome.escalations[j].message_uuid = uuid }

\* C38: a summary of a result that has priority urgent or sentiment urgent and
\* actionRequired false has exactly one escalation in the result, and its
\* message has no reply and no task; the responses of the result are as many
\* as its summaries with actionRequired true.
C38_EscalatedWithoutAction ==
    \A i \in Returned :
        /\ \A s \in Entries(outcomes[i].summaries) :
              (/\ ~s.summary.actionRequired
               /\ (s.summary.priority = "urgent" \/ s.summary.sentiment = "urgent")) =>
                  /\ Cardinality(EscalationsOf(outcomes[i], s.message_uuid)) = 1
                  /\ RepliesTo(s.message_uuid) = {}
                  /\ TasksFrom(s.message_uuid) = {}
        /\ Len(outcomes[i].responses) = Cardinality(Actionable(outcomes[i].summaries))

\* a result holds two escalations and no reply and no task: one of a summary
\* that is urgent by its priority alone, one of a summary that is urgent by its
\* sentiment alone, both with actionRequired false
C38_Witness ==
    \E i \in Returned :
        /\ Len(outcomes[i].escalations) = 2
        /\ outcomes[i].responses = << >>
        /\ outcomes[i].tasks = << >>
        /\ \E s \in Entries(outcomes[i].summaries) :
              /\ ~s.summary.actionRequired
              /\ s.summary.priority = "urgent"
              /\ s.summary.sentiment = "neutral"
        /\ \E s \in Entries(outcomes[i].summaries) :
              /\ ~s.summary.actionRequired
              /\ s.summary.priority = "low"
              /\ s.summary.sentiment = "urgent"

====
